---------------------------- MODULE Spec2Model ----------------------------
(***************************************************************************)
(* Model of gateway-route-manager: the netlink route-plane installer       *)
(* (pkg/routes), the IPv4 prefix reduction it relies on (pkg/iputil) and   *)
(* the DDNS updater (pkg/ddns) driven by the monitor loop (pkg/monitor).   *)
(*                                                                         *)
(* Kernel model.  Rules are a list kept in ascending priority order (ties  *)
(* in insertion order).  Routes are keyed by (table, destination): the     *)
(* program never sets a metric or TOS on the routes it builds.  Every      *)
(* kernel call is one step and may fail.                                   *)
(***************************************************************************)
EXTENDS Integers, Sequences, FiniteSets, TLC

(***************************************************************************)
(* Bounds of the model                                                     *)
(***************************************************************************)
AddrBits == 2          \* width of a destination address (IPv4: 32)
MaxExcludes == 2       \* longest exclude list handed to NewNetlinkManager
MaxFailures == 1       \* kernel calls that may fail in one behaviour
MaxNetworks == 3       \* longest list handed to ReduceNetworks on its own
IPLen == 2             \* bytes of an address handed to GenerateGateways (IPv4: 4)
ByteMax == 2           \* largest value of an address byte (a byte: 255)
MaxCycles == 2         \* check cycles a run of the monitor goes through

(***************************************************************************)
(* Program constants                                                       *)
(***************************************************************************)
MaxRulePreference == 32766      \* routes.go:121
TableIDLimit == 255             \* routes.go:110
MainTable == 254                \* routes.go:88  (rule 32766 looks up main)
DefaultTable == 253             \* routes.go:89  (rule 32767 looks up default)
LocalTable == 255               \* routes.go:81  (rule 0 looks up local)
InvalidIP == 0                  \* changeip: "0.0.0.0" for an empty list
StatusOK == 200                 \* gateway.go:145 (http.StatusOK)
UpdateChanCap == 0              \* ddns updater: make(chan struct{}), unbuffered

(***************************************************************************)
(* IPv4 prefixes over AddrBits-bit addresses                               *)
(***************************************************************************)
RECURSIVE Pow2(_)
Pow2(n) == IF n = 0 THEN 1 ELSE 2 * Pow2(n - 1)

Addrs == 0 .. (Pow2(AddrBits) - 1)

\* a nil *net.IPNet; as a rule destination: "to all"
NilNet == [ip |-> -1, ones |-> -1]

Net(ip, ones) == [ip |-> ip, ones |-> ones]

\* canonical prefixes: the host bits of ip are zero
Prefixes == { Net(ip, ones) : ip \in Addrs, ones \in 0 .. AddrBits } \cap
            { n \in [ip : Addrs, ones : 0 .. AddrBits] :
                  n.ip % Pow2(AddrBits - n.ones) = 0 }

\* net.IPNet.Contains: the address masked by the prefix mask is the prefix ip
Contains(n, a) == (a \div Pow2(AddrBits - n.ones)) = (n.ip \div Pow2(AddrBits - n.ones))

Range(s) == { s[i] : i \in 1 .. Len(s) }

RECURSIVE SeqsUpTo(_, _)
SeqsUpTo(S, n) ==
    IF n = 0 THEN { <<>> }
    ELSE LET shorter == SeqsUpTo(S, n - 1)
         IN  shorter \cup { Append(s, x) : s \in shorter, x \in S }

(***************************************************************************)
(* iputil.ReduceNetworks                                                   *)
(***************************************************************************)
\* the comparator of sortNetworks: ip ascending, then longer prefix first
NetLess(a, b) ==
    IF a.ip # b.ip THEN a.ip < b.ip ELSE a.ones > b.ones

RECURSIVE InsertSorted(_, _)
InsertSorted(s, x) ==
    IF s = <<>> THEN <<x>>
    ELSE IF NetLess(x, Head(s)) THEN <<x>> \o s
         ELSE <<Head(s)>> \o InsertSorted(Tail(s), x)

RECURSIVE sortNetworks(_)
sortNetworks(s) ==
    IF s = <<>> THEN <<>>
    ELSE InsertSorted(sortNetworks(Tail(s)), Head(s))

RECURSIVE DedupFrom(_, _)
DedupFrom(s, seen) ==
    IF s = <<>> THEN <<>>
    ELSE IF Head(s) \in seen THEN DedupFrom(Tail(s), seen)
         ELSE <<Head(s)>> \o DedupFrom(Tail(s), seen \cup {Head(s)})

removeDuplicateNetworks(s) ==
    IF Len(s) <= 1 THEN s ELSE DedupFrom(s, {})

isSubnetOf(subnet, network) ==
    /\ subnet.ones >= network.ones
    /\ Contains(network, subnet.ip)

RECURSIVE SubsetFrom(_, _)
SubsetFrom(s, i) ==
    IF i > Len(s) THEN <<>>
    ELSE LET isSubset == \E j \in 1 .. Len(s) : i # j /\ isSubnetOf(s[i], s[j])
         IN  (IF isSubset THEN <<>> ELSE <<s[i]>>) \o SubsetFrom(s, i + 1)

removeSubsetNetworks(s) ==
    IF Len(s) <= 1 THEN s ELSE SubsetFrom(s, 1)

\* a merge that does not compare the parents of the two prefixes
tryMergeAnyParent(net1, net2) ==
    IF net1.ones # net2.ones THEN NilNet
    ELSE IF net1.ones = 0 THEN NilNet
    ELSE LET size   == Pow2(AddrBits - net1.ones)
             parent == Pow2(AddrBits - net1.ones + 1)
             p1     == (net1.ip \div parent) * parent
             bit1   == (net1.ip \div size) % 2
             bit2   == (net2.ip \div size) % 2
         IN  IF bit1 = bit2 THEN NilNet
             ELSE Net(p1, net1.ones - 1)

\* the parent prefix when net1 and net2 are its two halves, NilNet otherwise
tryMergeNetworks(net1, net2) ==
    IF net1.ones # net2.ones THEN NilNet
    ELSE IF net1.ones = 0 THEN NilNet
    ELSE LET size   == Pow2(AddrBits - net1.ones)
             parent == Pow2(AddrBits - net1.ones + 1)
             p1     == (net1.ip \div parent) * parent
             p2     == (net2.ip \div parent) * parent
             bit1   == (net1.ip \div size) % 2
             bit2   == (net2.ip \div size) % 2
         IN  IF p1 # p2 THEN NilNet
             ELSE IF bit1 = bit2 THEN NilNet
             ELSE Net(p1, net1.ones - 1)

\* index of the first unused j > i that merges with s[i], 0 when there is none
RECURSIVE FirstMerge(_, _, _, _)
FirstMerge(s, used, i, j) ==
    IF j > Len(s) THEN 0
    ELSE IF j \notin used /\ tryMergeNetworks(s[i], s[j]) # NilNet THEN j
    ELSE FirstMerge(s, used, i, j + 1)

RECURSIVE MergeFrom(_, _, _)
MergeFrom(s, used, i) ==
    IF i > Len(s) THEN <<>>
    ELSE IF i \in used THEN MergeFrom(s, used, i + 1)
    ELSE LET j == FirstMerge(s, used, i, i + 1)
         IN  IF j # 0
             THEN <<tryMergeNetworks(s[i], s[j])>> \o MergeFrom(s, used \cup {i, j}, i + 1)
             ELSE <<s[i]>> \o MergeFrom(s, used \cup {i}, i + 1)

mergeAdjacentNetworks(s) ==
    IF Len(s) <= 1 THEN s ELSE MergeFrom(s, {}, 1)

RECURSIVE MergeLoop(_)
MergeLoop(result) ==
    LET merged == mergeAdjacentNetworks(result)
    IN  IF Len(merged) = Len(result) THEN result
        ELSE MergeLoop(sortNetworks(merged))

ReduceNetworks(networks) ==
    IF Len(networks) <= 1 THEN networks
    ELSE LET copy == SelectSeq(networks, LAMBDA n : n # NilNet)
         IN  MergeLoop(removeSubsetNetworks(removeDuplicateNetworks(sortNetworks(copy))))

(***************************************************************************)
(* Gateway addresses and their string form (net.IP.String)                 *)
(***************************************************************************)
\* last octets of the candidate gateways 192.168.1.x
GatewayIPs == {2, 10}

\* the decimal digits of the last octet; the leading octets are common
IPString(ip) == IF ip < 10 THEN <<ip>> ELSE <<ip \div 10, ip % 10>>

\* Go's < on strings: lexicographic, a proper prefix is smaller
RECURSIVE StrLess(_, _)
StrLess(a, b) ==
    IF b = <<>> THEN FALSE
    ELSE IF a = <<>> THEN TRUE
    ELSE IF Head(a) # Head(b) THEN Head(a) < Head(b)
    ELSE StrLess(Tail(a), Tail(b))

RECURSIVE InsertGateway(_, _)
InsertGateway(s, g) ==
    IF s = <<>> THEN <<g>>
    ELSE IF StrLess(IPString(g), IPString(Head(s))) THEN <<g>> \o s
         ELSE <<Head(s)>> \o InsertGateway(Tail(s), g)

RECURSIVE SortGatewaysNumeric(_)
SortGatewaysNumeric(s) ==
    IF s = <<>> THEN <<>>
    ELSE LET lo == CHOOSE i \in 1 .. Len(s) : \A j \in 1 .. Len(s) : s[i] <= s[j]
         IN  <<s[lo]>> \o SortGatewaysNumeric([k \in 1 .. (Len(s) - 1) |->
                                                  IF k < lo THEN s[k] ELSE s[k + 1]])

\* sort.Slice(activeGateways, String() <)
RECURSIVE SortGateways(_)
SortGateways(s) ==
    IF s = <<>> THEN <<>>
    ELSE InsertGateway(SortGateways(Tail(s)), Head(s))

\* the active lists a caller may hand over: distinct gateways in any order
ActiveLists ==
    { s \in SeqsUpTo(GatewayIPs, Cardinality(GatewayIPs)) :
          \A i, j \in 1 .. Len(s) : i # j => s[i] # s[j] }

(***************************************************************************)
(* Kernel routing adapter (netlinkHandle)                                  *)
(***************************************************************************)
\* a rule: table = 0 when it has no lookup, goto = 0 when it has no goto
Rule(priority, dst, table, goto) ==
    [priority |-> priority, dst |-> dst, table |-> table, goto |-> goto]

\* a route: nexthops is the list of gateway addresses (one entry: plain Gw)
Route(table, dst, nexthops) ==
    [table |-> table, dst |-> dst, nexthops |-> nexthops]

\* RuleAdd: the kernel keeps the list ordered by priority, new rule last among equals
RECURSIVE RuleAddK(_, _)
RuleAddK(rs, r) ==
    IF rs = <<>> THEN <<r>>
    ELSE IF Head(rs).priority > r.priority THEN <<r>> \o rs
         ELSE <<Head(rs)>> \o RuleAddK(Tail(rs), r)

\* RuleDel: removes the first rule equal to the given one
RECURSIVE RuleDelK(_, _)
RuleDelK(rs, r) ==
    IF rs = <<>> THEN <<>>
    ELSE IF Head(rs) = r THEN Tail(rs)
         ELSE <<Head(rs)>> \o RuleDelK(Tail(rs), r)

\* RouteReplace: upsert on (table, dst)
RouteReplaceK(rts, r) ==
    { x \in rts : ~ (x.table = r.table /\ x.dst = r.dst) } \cup {r}

\* RouteListFilteredIter with RT_FILTER_TABLE
RouteListFiltered(rts, table) == { x \in rts : x.table = table }

\* the table whose route resolves a packet to address a, 0 when none does:
\* rules in ascending priority, a goto jumps to the first rule of the target
\* priority (and is skipped when there is none), a lookup without a matching
\* route continues with the next rule
RECURSIVE ResolveFrom(_, _, _, _)
ResolveFrom(rs, rts, i, a) ==
    IF i > Len(rs) THEN 0
    ELSE LET r == rs[i]
         IN  IF r.dst # NilNet /\ ~ Contains(r.dst, a)
             THEN ResolveFrom(rs, rts, i + 1, a)
             ELSE IF r.goto # 0
             THEN LET targets == { j \in (i + 1) .. Len(rs) : rs[j].priority = r.goto }
                  IN  IF targets = {} THEN ResolveFrom(rs, rts, i + 1, a)
                      ELSE ResolveFrom(rs, rts,
                                       CHOOSE j \in targets : \A k \in targets : j <= k, a)
             ELSE IF \E x \in rts : x.table = r.table /\ Contains(x.dst, a)
             THEN r.table
             ELSE ResolveFrom(rs, rts, i + 1, a)

Resolve(rs, rts, a) == ResolveFrom(rs, rts, 1, a)

(***************************************************************************)
(* State                                                                   *)
(***************************************************************************)
VARIABLES
    rules,       \* kernel: the IPv4 rule list
    routes,      \* kernel: the IPv4 routes of all tables
    cfg,         \* arguments of NewNetlinkManager
    m,           \* the NetlinkManager fields
    handleOpen,  \* the netlink handle has not been closed
    pc,          \* position of the caller of the route manager
    phase,       \* caller of the running removeRules: init, cleanup or close
    todo,        \* rules the running loop still has to add or delete
    pending,     \* routes the running route iteration still has to visit
    arg,         \* active gateways of the latest UpdateDefaultRoute call
    res,         \* outcome of the latest completed operation
    failures,    \* kernel calls that have failed so far
    rules0,      \* the rule list before NewNetlinkManager
    routes0      \* the routes before NewNetlinkManager

routeVars == <<rules, routes, cfg, m, handleOpen, pc, phase, todo, pending,
               arg, res, failures, rules0, routes0>>

VARIABLES
    provider,            \* cfg.DDNSProvider: "" when DDNS is off
    requireIP,           \* cfg.DDNSRequireIPAddress is set
    publicIPOf,          \* the public address each gateway reports
    hasRequiredIP,       \* an interface carries the required address
    healthy,             \* netlink, fetches and provider calls succeed
    records,             \* the provider's A-records of the hostname
    cancelled,           \* the context of main is done
    isActive,            \* gateways whose IsActive flag is set
    monPc,               \* position of GatewayMonitor.Run
    ddnsPc,              \* position of the updater goroutine
    nextActiveGateways,  \* Updater.nextActiveGateways
    lastActiveIPs,       \* Updater.lastActiveIPs
    updateChanClosed,    \* Updater.Close has closed updateChan
    activeGateways,      \* update: the snapshot it loaded
    toFetch,             \* update: gateways its loop still has to ask
    publicIPs,           \* update: the addresses collected so far
    unloaded             \* nextActiveGateways was swapped and not loaded since

ddnsVars == <<provider, requireIP, publicIPOf, hasRequiredIP, healthy, records,
              cancelled, isActive, monPc, ddnsPc, nextActiveGateways,
              lastActiveIPs, updateChanClosed, activeGateways, toFetch,
              publicIPs, unloaded>>

VARIABLES
    callArg,     \* argument of the function a caller is applying
    callRet      \* what that call has returned, NoReturn before it does

callVars == <<callArg, callRet>>

NoReturn == [done |-> FALSE]

Return(v) == [done |-> TRUE, value |-> v]

\* nobody is calling
CallIdle ==
    /\ callArg = <<>>
    /\ callRet = NoReturn

(***************************************************************************)
(* Configurations and kernel states the program may start from             *)
(***************************************************************************)
DefaultDst == Net(0, 0)          \* net.IPv4zero / CIDRMask(0, 32)

\* two adjacent halves, their parent and the other half of the address space
ExcludePool ==
    { Net(0, AddrBits), Net(1, AddrBits), Net(0, AddrBits - 1), Net(Pow2(AddrBits - 1), 1) }

ExcludeLists == SeqsUpTo(ExcludePool, MaxExcludes)

Config(excludes, firstTableID, firstRulePreference) ==
    [excludes |-> excludes, firstTableID |-> firstTableID,
     firstRulePreference |-> firstRulePreference]

Configs ==
    { Config(e, 100, 1000) : e \in ExcludeLists }
    \cup { Config(e, t, 1000) : e \in { <<>>, <<Net(0, AddrBits - 1)>> },
                                 t \in { 0, 1, 252, 253, 254, 255 } }
    \cup { Config(e, 100, p) : e \in { <<>>, <<Net(0, AddrBits - 1)>> },
                               p \in { 0, 1, 32763, 32764, 32765, 32766 } }

ZeroManager ==
    [gatewayTableID |-> 0, fallthroughTableID |-> 0,
     firstExcludeRulePreference |-> 0, fallthroughTableRulePreference |-> 0,
     gatewayTableRulePreference |-> 0, excludeNets |-> <<>>]

\* the manager fields excludeNetworks computes
ManagerWrongFallthrough(nets, firstTableID, firstRulePreference) ==
    [gatewayTableID |-> firstTableID,
     fallthroughTableID |-> firstTableID + 1,
     firstExcludeRulePreference |-> firstRulePreference,
     fallthroughTableRulePreference |-> firstRulePreference + Len(nets) + 2,
     gatewayTableRulePreference |-> firstRulePreference + Len(nets) + 1,
     excludeNets |-> nets]

ManagerFields(nets, firstTableID, firstRulePreference) ==
    [gatewayTableID |-> firstTableID,
     fallthroughTableID |-> firstTableID + 1,
     firstExcludeRulePreference |-> firstRulePreference,
     fallthroughTableRulePreference |-> firstRulePreference + Len(nets) + 1,
     gatewayTableRulePreference |-> (firstRulePreference + Len(nets) + 1) - 1,
     excludeNets |-> nets]

fallthroughRule(mgr) ==
    Rule(mgr.fallthroughTableRulePreference, NilNet, mgr.fallthroughTableID, 0)

excludeRule(mgr, i) ==
    Rule(mgr.firstExcludeRulePreference + (i - 1), mgr.excludeNets[i], 0,
         mgr.fallthroughTableRulePreference)

gatewayRule(mgr) ==
    Rule(mgr.gatewayTableRulePreference, NilNet, mgr.gatewayTableID, 0)

\* the RuleAdd calls of addRules, in order, with the gateway rule first
AddListGatewayFirst(mgr) ==
    <<gatewayRule(mgr), fallthroughRule(mgr)>>
        \o [i \in 1 .. Len(mgr.excludeNets) |-> excludeRule(mgr, i)]

\* the RuleAdd calls of addRules, in order
AddList(mgr) ==
    <<fallthroughRule(mgr)>>
        \o [i \in 1 .. Len(mgr.excludeNets) |-> excludeRule(mgr, i)]
        \o <<gatewayRule(mgr)>>

SystemRules ==
    << Rule(0, NilNet, LocalTable, 0),
       Rule(MaxRulePreference, NilNet, MainTable, 0),
       Rule(MaxRulePreference + 1, NilNet, DefaultTable, 0) >>

RECURSIVE AddAll(_, _)
AddAll(rs, new) ==
    IF new = <<>> THEN rs ELSE AddAll(RuleAddK(rs, Head(new)), Tail(new))

\* rules an earlier run with the same first table and first preference left
\* behind when it ended without Close
StaleRules(c, priorExcludes) ==
    AddList(ManagerFields(priorExcludes, c.firstTableID, c.firstRulePreference))

PriorRuns == { <<>>, <<Net(0, AddrBits)>>,
               <<Net(0, AddrBits), Net(Pow2(AddrBits - 1), 1)>> }

\* a rule of some other program at the first preference
ForeignRule(c) == Rule(c.firstRulePreference, NilNet, 50, 0)

InitialRules(c) ==
    { SystemRules, AddAll(SystemRules, <<ForeignRule(c)>>) }
    \cup { AddAll(SystemRules, StaleRules(c, e)) : e \in PriorRuns }

\* the system's own default route
MainRoutes == { Route(MainTable, DefaultDst, <<1>>) }

\* routes found in the gateway table at start: a plain and a multipath one
LeftoverRoutes(c) ==
    { Route(c.firstTableID, DefaultDst, <<2>>),
      Route(c.firstTableID, Net(0, 1), <<2, 10>>) }

InitialRoutes(c) ==
    LET one == { RouteReplaceK(MainRoutes, r) : r \in LeftoverRoutes(c) }
    IN  {MainRoutes} \cup one
        \cup { RouteReplaceK(rts, r) : rts \in one, r \in LeftoverRoutes(c) }

NoResult == [op |-> "none", ok |-> TRUE, errs |-> {}]

Result(op, errs) == [op |-> op, ok |-> (errs = {}), errs |-> errs]

(***************************************************************************)
(* Route-plane installer: NewNetlinkManager, UpdateDefaultRoute, Close     *)
(***************************************************************************)
RouteInit ==
    /\ cfg \in Configs
    /\ rules \in InitialRules(cfg)
    /\ routes \in InitialRoutes(cfg)
    /\ rules0 = rules
    /\ routes0 = routes
    /\ m = ZeroManager
    /\ handleOpen = TRUE
    /\ pc = "new"
    /\ phase = "init"
    /\ todo = <<>>
    /\ pending = {}
    /\ arg = <<>>
    /\ res = NoResult
    /\ failures = 0

\* whether the next kernel call fails
Outcomes == IF failures < MaxFailures THEN {TRUE, FALSE} ELSE {FALSE}

\* NewNetlinkManager gives up: the handle is closed and no manager is returned
InitFails(reason) ==
    /\ pc' = "failed"
    /\ handleOpen' = FALSE
    /\ res' = Result("init", {reason})

\* NewNetlinkManager up to the first kernel call: the range checks of
\* excludeNetworks and the manager fields
excludeNetworks ==
    /\ pc = "new"
    /\ LET maxTableID == TableIDLimit - 1
           nets == ReduceNetworks(cfg.excludes)
           requiredRuleCount == Len(nets) + 2
           maxFirstRulePreference == MaxRulePreference - requiredRuleCount + 1
       IN  IF cfg.firstTableID < 1 \/ cfg.firstTableID > maxTableID
           THEN InitFails("table") /\ UNCHANGED m
           ELSE IF \/ cfg.firstRulePreference < 1
                   \/ cfg.firstRulePreference > maxFirstRulePreference
           THEN InitFails("preference") /\ UNCHANGED m
           ELSE /\ m' = ManagerFields(nets, cfg.firstTableID, cfg.firstRulePreference)
                /\ pc' = "rm_list"
                /\ UNCHANGED <<handleOpen, res>>
    /\ UNCHANGED <<rules, routes, cfg, phase, todo, pending, arg, failures,
                   rules0, routes0>>
    /\ UNCHANGED <<ddnsVars, callVars>>

\* ruleMap[rule.Priority] = rule over the listed rules: the last one wins
RuleMap(rs) ==
    [p \in { rs[i].priority : i \in 1 .. Len(rs) } |->
        rs[CHOOSE i \in 1 .. Len(rs) :
              /\ rs[i].priority = p
              /\ \A j \in 1 .. Len(rs) : rs[j].priority = p => j <= i]]

\* the RuleDel calls of removeRules, in order, deleting the fallthrough rule first
DelListFallthroughFirst(mgr, rs) ==
    LET ruleMap == RuleMap(rs)
        prefs == <<mgr.fallthroughTableRulePreference>>
                 \o [i \in 1 .. Len(mgr.excludeNets) |->
                        mgr.firstExcludeRulePreference + (i - 1)]
                 \o <<mgr.gatewayTableRulePreference>>
        found == SelectSeq(prefs, LAMBDA p : p \in DOMAIN ruleMap)
    IN  [i \in 1 .. Len(found) |-> ruleMap[found[i]]]

\* the RuleDel calls of removeRules when the exclude rules are left out
DelListSkipsExcludes(mgr, rs) ==
    LET ruleMap == RuleMap(rs)
        prefs == <<mgr.gatewayTableRulePreference, mgr.fallthroughTableRulePreference>>
        found == SelectSeq(prefs, LAMBDA p : p \in DOMAIN ruleMap)
    IN  [i \in 1 .. Len(found) |-> ruleMap[found[i]]]

\* the RuleDel calls of removeRules, in order: gateway rule, exclude rules,
\* fallthrough rule, each only when a rule of that priority was listed
DelList(mgr, rs) ==
    LET ruleMap == RuleMap(rs)
        prefs == <<mgr.gatewayTableRulePreference>>
                 \o [i \in 1 .. Len(mgr.excludeNets) |->
                        mgr.firstExcludeRulePreference + (i - 1)]
                 \o <<mgr.fallthroughTableRulePreference>>
        found == SelectSeq(prefs, LAMBDA p : p \in DOMAIN ruleMap)
    IN  [i \in 1 .. Len(found) |-> ruleMap[found[i]]]

\* removeRules returns to its caller: addRules (init), the cleanup of
\* excludeNetworks, or Close, which then closes the handle
removeRulesReturns(err) ==
    CASE phase = "init" /\ ~ err ->
            /\ pc' = "add"
            /\ todo' = AddList(m)
            /\ UNCHANGED <<phase, res, handleOpen>>
      [] phase = "init" /\ err ->
            /\ pc' = "rm_list"
            /\ phase' = "cleanup"
            /\ todo' = <<>>
            /\ res' = Result("init", {"remove"})
            /\ UNCHANGED handleOpen
      [] phase = "cleanup" ->
            /\ InitFails(CHOOSE e \in res.errs : TRUE)
            /\ todo' = <<>>
            /\ UNCHANGED phase
      [] phase = "close" ->
            /\ pc' = "closed"
            /\ handleOpen' = FALSE
            /\ todo' = <<>>
            /\ res' = Result("close", res.errs \cup (IF err THEN {"rules"} ELSE {}))
            /\ UNCHANGED phase

\* removeRules: RuleList and the deletion plan built from it
removeRulesList ==
    /\ pc = "rm_list"
    /\ \E fail \in Outcomes :
          IF fail
          THEN /\ failures' = failures + 1
               /\ removeRulesReturns(TRUE)
          ELSE /\ pc' = "rm_del"
               /\ todo' = DelList(m, rules)
               /\ UNCHANGED <<phase, res, handleOpen, failures>>
    /\ UNCHANGED <<rules, routes, cfg, m, pending, arg, rules0, routes0>>
    /\ UNCHANGED <<ddnsVars, callVars>>

\* removeRules: one RuleDel; the first failure ends removeRules
removeRulesDel ==
    /\ pc = "rm_del"
    /\ todo # <<>>
    /\ \E fail \in (IF Head(todo) \in Range(rules) THEN Outcomes ELSE {TRUE}) :
          IF fail
          THEN /\ failures' = failures + 1
               /\ removeRulesReturns(TRUE)
               /\ UNCHANGED rules
          ELSE /\ rules' = RuleDelK(rules, Head(todo))
               /\ todo' = Tail(todo)
               /\ UNCHANGED <<pc, phase, res, handleOpen, failures>>
    /\ UNCHANGED <<routes, cfg, m, pending, arg, rules0, routes0>>
    /\ UNCHANGED <<ddnsVars, callVars>>

\* removeRules: every planned deletion is done
removeRulesDone ==
    /\ pc = "rm_del"
    /\ todo = <<>>
    /\ removeRulesReturns(FALSE)
    /\ UNCHANGED <<rules, routes, cfg, m, pending, arg, failures, rules0, routes0>>
    /\ UNCHANGED <<ddnsVars, callVars>>

\* addRules: one RuleAdd; a failure starts the cleanup of excludeNetworks,
\* the last success returns the manager
addRules ==
    /\ pc = "add"
    /\ todo # <<>>
    /\ \E fail \in (IF Head(todo) \in Range(rules) THEN {TRUE} ELSE Outcomes) :
          IF fail
          THEN /\ failures' = failures + 1
               /\ pc' = "rm_list"
               /\ phase' = "cleanup"
               /\ todo' = <<>>
               /\ res' = Result("init", {"add"})
               /\ UNCHANGED rules
          ELSE /\ rules' = RuleAddK(rules, Head(todo))
               /\ todo' = Tail(todo)
               /\ pc' = IF Tail(todo) = <<>> THEN "ready" ELSE "add"
               /\ res' = IF Tail(todo) = <<>> THEN Result("init", {}) ELSE res
               /\ UNCHANGED <<phase, failures>>
    /\ UNCHANGED <<routes, cfg, m, handleOpen, pending, arg, rules0, routes0>>
    /\ UNCHANGED <<ddnsVars, callVars>>

\* an upsert that drops the route it finds instead of replacing it
replaceDropsExisting(rts, mgr, gateways) ==
    IF \E x \in rts : x.table = mgr.gatewayTableID /\ x.dst = DefaultDst
    THEN { x \in rts : ~ (x.table = mgr.gatewayTableID /\ x.dst = DefaultDst) }
    ELSE RouteReplaceK(rts, Route(mgr.gatewayTableID, DefaultDst, gateways))

\* replaceDefaultRouteECMP: the routes after its RouteReplace succeeded
replaceDefaultRouteECMP(rts, mgr, gateways) ==
    IF Len(gateways) = 0 THEN rts
    ELSE RouteReplaceK(rts, Route(mgr.gatewayTableID, DefaultDst, gateways))

\* the routes a route iteration visits, limited to the default destination
routesToRemoveDefaultOnly(rts, mgr) ==
    { x \in RouteListFiltered(rts, mgr.gatewayTableID) : x.dst = DefaultDst }

\* the routes removeDefaultRoute and removeRoutes iterate over
routesToRemove(rts, mgr) == RouteListFiltered(rts, mgr.gatewayTableID)

\* UpdateDefaultRoute with a non-empty list: sort, then one RouteReplace
UpdateDefaultRouteECMP ==
    /\ pc = "ready"
    /\ \E active \in ActiveLists \ { <<>> } :
          /\ arg' = active
          /\ \E fail \in Outcomes :
                IF fail
                THEN /\ failures' = failures + 1
                     /\ res' = Result("update", {"replace"})
                     /\ UNCHANGED routes
                ELSE /\ routes' = replaceDefaultRouteECMP(routes, m, SortGateways(active))
                     /\ res' = Result("update", {})
                     /\ UNCHANGED failures
    /\ UNCHANGED <<rules, cfg, m, handleOpen, pc, phase, todo, pending, rules0, routes0>>
    /\ UNCHANGED <<ddnsVars, callVars>>

\* UpdateDefaultRoute with an empty list: removeDefaultRoute lists the
\* gateway table
UpdateDefaultRouteNone ==
    /\ pc = "ready"
    /\ arg' = <<>>
    /\ \E fail \in Outcomes :
          IF fail
          THEN /\ failures' = failures + 1
               /\ res' = Result("update", {"list"})
               /\ UNCHANGED <<pc, pending>>
          ELSE /\ pending' = routesToRemove(routes, m)
               /\ pc' = IF pending' = {} THEN "ready" ELSE "upd_del"
               /\ res' = IF pending' = {} THEN Result("update", {}) ELSE res
               /\ UNCHANGED failures
    /\ UNCHANGED <<rules, routes, cfg, m, handleOpen, phase, todo, rules0, routes0>>
    /\ UNCHANGED <<ddnsVars, callVars>>

\* removeDefaultRoute: one RouteDel of the iteration; the first failure ends it
removeDefaultRoute ==
    /\ pc = "upd_del"
    /\ \E r \in pending :
          \E fail \in (IF r \in routes THEN Outcomes ELSE {TRUE}) :
             IF fail
             THEN /\ failures' = failures + 1
                  /\ pc' = "ready"
                  /\ pending' = {}
                  /\ res' = Result("update", {"delete"})
                  /\ UNCHANGED routes
             ELSE /\ routes' = routes \ {r}
                  /\ pending' = pending \ {r}
                  /\ pc' = IF pending' = {} THEN "ready" ELSE "upd_del"
                  /\ res' = IF pending' = {} THEN Result("update", {}) ELSE res
                  /\ UNCHANGED failures
    /\ UNCHANGED <<rules, cfg, m, handleOpen, phase, todo, arg, rules0, routes0>>
    /\ UNCHANGED <<ddnsVars, callVars>>

\* Close: removeRoutes lists the gateway table; removeRules follows whatever
\* the outcome
Close ==
    /\ pc = "ready"
    /\ phase' = "close"
    /\ \E fail \in Outcomes :
          IF m.gatewayTableID = 0
          THEN /\ pc' = "rm_list"
               /\ res' = Result("close", {})
               /\ UNCHANGED <<pending, failures>>
          ELSE IF fail
          THEN /\ failures' = failures + 1
               /\ pc' = "rm_list"
               /\ res' = Result("close", {"routes"})
               /\ UNCHANGED pending
          ELSE /\ pending' = routesToRemove(routes, m)
               /\ pc' = IF pending' = {} THEN "rm_list" ELSE "cl_del"
               /\ res' = Result("close", {})
               /\ UNCHANGED failures
    /\ UNCHANGED <<rules, routes, cfg, m, handleOpen, todo, arg, rules0, routes0>>
    /\ UNCHANGED <<ddnsVars, callVars>>

\* removeRoutes: one RouteDel of the iteration; the first failure ends it
removeRoutes ==
    /\ pc = "cl_del"
    /\ \E r \in pending :
          \E fail \in (IF r \in routes THEN Outcomes ELSE {TRUE}) :
             IF fail
             THEN /\ failures' = failures + 1
                  /\ pc' = "rm_list"
                  /\ pending' = {}
                  /\ res' = Result("close", {"routes"})
                  /\ UNCHANGED routes
             ELSE /\ routes' = routes \ {r}
                  /\ pending' = pending \ {r}
                  /\ pc' = IF pending' = {} THEN "rm_list" ELSE "cl_del"
                  /\ UNCHANGED <<res, failures>>
    /\ UNCHANGED <<rules, cfg, m, handleOpen, phase, todo, arg, rules0, routes0>>
    /\ UNCHANGED <<ddnsVars, callVars>>

RouteNext ==
    \/ excludeNetworks
    \/ removeRulesList
    \/ removeRulesDel
    \/ removeRulesDone
    \/ addRules
    \/ UpdateDefaultRouteECMP
    \/ UpdateDefaultRouteNone
    \/ removeDefaultRoute
    \/ Close
    \/ removeRoutes

(***************************************************************************)
(* DDNS updater (pkg/ddns) driven by the monitor loop (pkg/monitor)        *)
(*                                                                         *)
(* Two goroutines: the monitor loop (GatewayMonitor.Run) and the updater   *)
(* (Updater.Run, started by runDDNSUpdater).  They share the atomic        *)
(* nextActiveGateways and the channel updateChan, which NewUpdater makes   *)
(* without a buffer: a non-blocking send hands its value over only when    *)
(* the updater is parked in its select.  Addresses are numbers; their      *)
(* order is that of their text (IPString, StrLess).                        *)
(***************************************************************************)
\* gm.gateways, in the order GenerateGateways builds it
GatewayList == <<2, 10>>

Providers == {"", "DynuDNS", "ChangeIP"}

\* addresses the gateways' public-IP services may report
PublicIPPool == {3, 12}

\* the gateways report different addresses, or share one
PublicIPMaps ==
    { [g \in GatewayIPs |-> IF g = 2 THEN 3 ELSE 12], [g \in GatewayIPs |-> 3] }

\* a map's keys in the order the iteration happens to yield them
RECURSIVE SetToSeq(_)
SetToSeq(S) ==
    IF S = {} THEN <<>>
    ELSE LET x == CHOOSE y \in S : TRUE
         IN  <<x>> \o SetToSeq(S \ {x})

\* performCheckCycle: the gateways with IsActive set, in gm.gateways order
collectActive(active) == SelectSeq(GatewayList, LAMBDA g : g \in active)

\* a sort that leaves the list as it is
slicesSortKeepsOrder(s) == s

\* slices.Sort on the addresses' text
RECURSIVE slicesSort(_)
slicesSort(s) ==
    IF s = <<>> THEN <<>>
    ELSE InsertGateway(slicesSort(Tail(s)), Head(s))

\* update: the uniqueIPs map, its keys appended and sorted
uniqueSorted(ips) == slicesSort(SetToSeq(Range(ips)))

\* whether a call to the outside may fail
Faults == IF healthy THEN {FALSE} ELSE {TRUE, FALSE}

\* a call carrying the context: fails once the context is done
CtxFaults == IF cancelled THEN {TRUE} ELSE Faults

\* the node label getroot returns for the configured hostname
HostNode == "gw"

\* a DynuDNSRecord of the zone
DNSRecord(id, nodeName, recordType, address) ==
    [id |-> id, nodeName |-> nodeName, recordType |-> recordType,
     ipv4Address |-> address]

ARecord(id, address) == DNSRecord(id, HostNode, "A", address)

\* getExistingRecords: the A-records of the node
getExistingRecords(zone) ==
    { r \in zone : r.nodeName = HostNode /\ r.recordType = "A" }

\* UpdateRecords: the existingIPs maps it may build, one record per address
\* (of several records with one address, the one the response lists last)
existingIPMaps(existing) ==
    LET addresses == { r.ipv4Address : r \in existing }
    IN  { f \in [addresses -> existing] : \A a \in addresses : f[a].ipv4Address = a }

\* a diff that deletes every existing record
recordsToDeleteAll(existingIPs, ips) ==
    { existingIPs[a] : a \in DOMAIN existingIPs }

\* UpdateRecords: existing addresses that are not in the target list
recordsToDelete(existingIPs, ips) ==
    { existingIPs[a] : a \in (DOMAIN existingIPs) \ Range(ips) }

\* UpdateRecords: target addresses without an existing record
ipsToAdd(existingIPs, ips) ==
    SelectSeq(ips, LAMBDA a : a \notin DOMAIN existingIPs)

\* the id the service gives a new record: the lowest one not in use
FreshID(zone) ==
    CHOOSE n \in 1 .. (Cardinality(zone) + 1) :
        /\ \A r \in zone : r.id # n
        /\ \A k \in 1 .. (n - 1) : \E r \in zone : r.id = k

\* createRecord for each address of a list
RECURSIVE createRecords(_, _)
createRecords(zone, adds) ==
    IF adds = <<>> THEN zone
    ELSE createRecords(zone \cup {ARecord(FreshID(zone), Head(adds))}, Tail(adds))

\* the entries of a list at the positions of I, in order
RECURSIVE Picked(_, _, _)
Picked(s, I, i) ==
    IF i > Len(s) THEN <<>>
    ELSE (IF i \in I THEN <<s[i]>> ELSE <<>>) \o Picked(s, I, i + 1)

\* DynuDNSProvider.UpdateRecords: the zones it may leave when every request
\* succeeded
DynuUpdateRecords(zone, ips) ==
    { createRecords(zone \ recordsToDelete(f, ips), ipsToAdd(f, ips)) :
          f \in existingIPMaps(getExistingRecords(zone)) }

\* DynuDNSProvider.UpdateRecords: the zones it may leave when it returns an
\* error, any of its deletes and creates having gone through
DynuUpdateRecordsFailed(zone, ips) ==
    UNION { { createRecords(zone \ d, Picked(ipsToAdd(f, ips), c, 1)) :
                  d \in SUBSET recordsToDelete(f, ips),
                  c \in SUBSET (1 .. Len(ipsToAdd(f, ips))) } :
            f \in existingIPMaps(getExistingRecords(zone)) }

\* ChangeIPProvider.UpdateRecords: one request that sets the hostname to the
\* list, to 0.0.0.0 for an empty one
ChangeIPUpdateRecords(zone, ips) ==
    LET myip == IF Len(ips) = 0 THEN <<InvalidIP>> ELSE ips
    IN  createRecords(zone \ getExistingRecords(zone), SetToSeq(Range(myip)))

\* Provider.UpdateRecords: the zones a successful call may leave
UpdateRecords(p, zone, ips) ==
    IF p = "ChangeIP" THEN {ChangeIPUpdateRecords(zone, ips)}
    ELSE DynuUpdateRecords(zone, ips)

\* the zones an UpdateRecords that returns an error may leave
UpdateRecordsFailed(p, zone, ips) ==
    IF p = "ChangeIP" THEN {zone, ChangeIPUpdateRecords(zone, ips)}
    ELSE DynuUpdateRecordsFailed(zone, ips)

\* what the zone holds at start: nothing, or what an earlier run or somebody
\* else left there (an address a gateway reports and one that none reports)
InitialRecords == { {}, {ARecord(1, 3), ARecord(2, 5)} }

\* NewUpdater, monitor.New: the state when main enters GatewayMonitor.Run
DDNSStart(p, req, pub, recs, ip, ok) ==
    /\ provider = p
    /\ requireIP = req
    /\ publicIPOf = pub
    /\ hasRequiredIP = ip
    /\ healthy = ok
    /\ records = recs
    /\ cancelled = FALSE
    /\ isActive = {}
    /\ monPc = "initial"
    /\ ddnsPc = "run"
    /\ nextActiveGateways = <<>>
    /\ lastActiveIPs = <<>>
    /\ updateChanClosed = FALSE
    /\ activeGateways = <<>>
    /\ toFetch = <<>>
    /\ publicIPs = <<>>
    /\ unloaded = FALSE

DDNSInit ==
    \E p \in Providers, req \in BOOLEAN, pub \in PublicIPMaps,
       recs \in InitialRecords :
          DDNSStart(p, req, pub, recs, TRUE, TRUE)

ddnsConfig == <<provider, requireIP, publicIPOf>>

updaterLocals == <<activeGateways, toFetch, publicIPs>>

routeRest == <<rules, cfg, m, handleOpen, pc, phase, todo, pending, arg,
               res, failures, rules0, routes0>>

\* a cycle that makes Run return an error when every probe failed
checkGatewaysFatal ==
    /\ monPc \in {"initial", "select"}
    /\ isActive' \in SUBSET GatewayIPs
    /\ monPc' = IF isActive' = {} THEN "failed" ELSE "routes"
    /\ UNCHANGED <<ddnsConfig, hasRequiredIP, healthy, records, cancelled, ddnsPc,
                   nextActiveGateways, lastActiveIPs, updateChanClosed,
                   updaterLocals, unloaded>>
    /\ UNCHANGED <<routeVars, callVars>>

\* GatewayMonitor.Run starts a cycle (the initial one, or on a tick) and
\* checkGateways sets the IsActive flags from the probes
checkGateways ==
    /\ monPc \in {"initial", "select"}
    /\ isActive' \in SUBSET GatewayIPs
    /\ monPc' = "routes"
    /\ UNCHANGED <<ddnsConfig, hasRequiredIP, healthy, records, cancelled, ddnsPc,
                   nextActiveGateways, lastActiveIPs, updateChanClosed,
                   updaterLocals, unloaded>>
    /\ UNCHANGED <<routeVars, callVars>>

\* performCheckCycle: updateRoutes; its error ends Run and with it main,
\* whose deferred cancel ends the context
updateRoutes ==
    /\ monPc = "routes"
    /\ \E fail \in Faults :
          IF fail
          THEN /\ monPc' = "failed"
               /\ cancelled' = TRUE
               /\ UNCHANGED routes
          ELSE /\ routes' = IF isActive = {}
                            THEN routes \ routesToRemove(routes, m)
                            ELSE replaceDefaultRouteECMP(routes, m,
                                     SortGateways(collectActive(isActive)))
               /\ monPc' = "schedule"
               /\ UNCHANGED cancelled
    /\ UNCHANGED <<ddnsConfig, hasRequiredIP, healthy, records, isActive, ddnsPc,
                   nextActiveGateways, lastActiveIPs, updateChanClosed,
                   updaterLocals, unloaded>>
    /\ UNCHANGED <<routeRest, callVars>>

\* ScheduleUpdate up to the Swap: nothing without a provider, nothing when
\* the sorted addresses equal those of the scheduled snapshot
ScheduleUpdateCall(next) ==
    /\ IF provider = ""
       THEN /\ monPc' = "select"
            /\ UNCHANGED <<nextActiveGateways, unloaded>>
       ELSE IF slicesSort(next) = slicesSort(nextActiveGateways)
       THEN /\ monPc' = "select"
            /\ UNCHANGED <<nextActiveGateways, unloaded>>
       ELSE /\ nextActiveGateways' = next
            /\ unloaded' = TRUE
            /\ monPc' = "send"
    /\ UNCHANGED <<ddnsConfig, hasRequiredIP, healthy, records, cancelled, isActive,
                   ddnsPc, lastActiveIPs, updateChanClosed, updaterLocals>>
    /\ UNCHANGED <<routeVars, callVars>>

\* performCheckCycle: ScheduleUpdate with the gateways it collected
ScheduleUpdate ==
    /\ monPc = "schedule"
    /\ ScheduleUpdateCall(collectActive(isActive))

\* ScheduleUpdate's select with a default: the send on the unbuffered
\* updateChan goes through only to an updater parked in its select; a send on
\* the closed channel panics
ScheduleUpdateSend ==
    /\ monPc = "send"
    /\ IF updateChanClosed
       THEN /\ monPc' = "panic"
            /\ UNCHANGED ddnsPc
       ELSE IF ddnsPc = "select" /\ ~ cancelled
       THEN /\ ddnsPc' = "update"
            /\ monPc' = "select"
       ELSE /\ monPc' = "select"
            /\ UNCHANGED ddnsPc
    /\ UNCHANGED <<ddnsConfig, hasRequiredIP, healthy, records, cancelled, isActive,
                   nextActiveGateways, lastActiveIPs, updateChanClosed,
                   updaterLocals, unloaded>>
    /\ UNCHANGED <<routeVars, callVars>>

\* GatewayMonitor.Run: case <-ctx.Done()
MonitorStopped ==
    /\ monPc = "select"
    /\ cancelled
    /\ monPc' = "stopped"
    /\ UNCHANGED <<ddnsConfig, hasRequiredIP, healthy, records, cancelled, isActive,
                   ddnsPc, nextActiveGateways, lastActiveIPs, updateChanClosed,
                   updaterLocals, unloaded>>
    /\ UNCHANGED <<routeVars, callVars>>

\* Updater.Run reaches its select and parks
RunSelect ==
    /\ ddnsPc = "run"
    /\ ~ cancelled
    /\ ddnsPc' = "select"
    /\ UNCHANGED <<ddnsConfig, hasRequiredIP, healthy, records, cancelled, isActive,
                   monPc, nextActiveGateways, lastActiveIPs, updateChanClosed,
                   updaterLocals, unloaded>>
    /\ UNCHANGED <<routeVars, callVars>>

\* Updater.Run: case <-ctx.Done()
RunReturns ==
    /\ ddnsPc \in {"run", "select"}
    /\ cancelled
    /\ ddnsPc' = "close"
    /\ UNCHANGED <<ddnsConfig, hasRequiredIP, healthy, records, cancelled, isActive,
                   monPc, nextActiveGateways, lastActiveIPs, updateChanClosed,
                   updaterLocals, unloaded>>
    /\ UNCHANGED <<routeVars, callVars>>

\* the deferred Updater.Close of runDDNSUpdater
UpdaterClose ==
    /\ ddnsPc = "close"
    /\ updateChanClosed' = TRUE
    /\ ddnsPc' = "done"
    /\ UNCHANGED <<ddnsConfig, hasRequiredIP, healthy, records, cancelled, isActive,
                   monPc, nextActiveGateways, lastActiveIPs, updaterLocals, unloaded>>
    /\ UNCHANGED <<routeVars, callVars>>

\* update: loads the scheduled snapshot
updateLoad ==
    /\ ddnsPc = "update"
    /\ IF provider = ""
       THEN /\ ddnsPc' = "run"
            /\ UNCHANGED <<updaterLocals, unloaded>>
       ELSE /\ activeGateways' = nextActiveGateways
            /\ toFetch' = nextActiveGateways
            /\ publicIPs' = <<>>
            /\ unloaded' = FALSE
            /\ ddnsPc' = IF requireIP THEN "gate"
                         ELSE IF nextActiveGateways = <<>> THEN "compare"
                         ELSE "fetch"
    /\ UNCHANGED <<ddnsConfig, hasRequiredIP, healthy, records, cancelled, isActive,
                   monPc, nextActiveGateways, lastActiveIPs, updateChanClosed>>
    /\ UNCHANGED <<routeVars, callVars>>

\* update: HasInterfaceWithIP; its error and a missing address end the pass
updateRequiredIP ==
    /\ ddnsPc = "gate"
    /\ \E err \in Faults :
          IF err \/ ~ hasRequiredIP
          THEN /\ ddnsPc' = "run"
               /\ activeGateways' = <<>>
               /\ toFetch' = <<>>
          ELSE /\ ddnsPc' = IF toFetch = <<>> THEN "compare" ELSE "fetch"
               /\ UNCHANGED <<activeGateways, toFetch>>
    /\ UNCHANGED <<ddnsConfig, hasRequiredIP, healthy, records, cancelled, isActive,
                   monPc, nextActiveGateways, lastActiveIPs, updateChanClosed,
                   publicIPs, unloaded>>
    /\ UNCHANGED <<routeVars, callVars>>

\* update: one FetchPublicIP of the loop; a failure skips the gateway
updateFetch ==
    /\ ddnsPc = "fetch"
    /\ \E err \in CtxFaults :
          publicIPs' = IF err THEN publicIPs
                       ELSE Append(publicIPs, publicIPOf[Head(toFetch)])
    /\ toFetch' = Tail(toFetch)
    /\ ddnsPc' = IF Tail(toFetch) = <<>> THEN "compare" ELSE "fetch"
    /\ UNCHANGED <<ddnsConfig, hasRequiredIP, healthy, records, cancelled, isActive,
                   monPc, nextActiveGateways, lastActiveIPs, updateChanClosed,
                   activeGateways, unloaded>>
    /\ UNCHANGED <<routeVars, callVars>>

\* update: compares the sorted unique list with lastActiveIPs, calls the
\* provider when they differ and stores the list unless the call failed
updateCompare ==
    /\ ddnsPc = "compare"
    /\ LET ips == uniqueSorted(publicIPs)
       IN  IF ips # lastActiveIPs
           THEN \E err \in CtxFaults :
                   IF err
                   THEN /\ records' \in UpdateRecordsFailed(provider, records, ips)
                        /\ UNCHANGED lastActiveIPs
                   ELSE /\ records' \in UpdateRecords(provider, records, ips)
                        /\ lastActiveIPs' = ips
           ELSE /\ lastActiveIPs' = ips
                /\ UNCHANGED records
    /\ ddnsPc' = "run"
    /\ activeGateways' = <<>>
    /\ toFetch' = <<>>
    /\ publicIPs' = <<>>
    /\ UNCHANGED <<ddnsConfig, hasRequiredIP, healthy, cancelled, isActive, monPc,
                   nextActiveGateways, updateChanClosed, unloaded>>
    /\ UNCHANGED <<routeVars, callVars>>

\* SIGINT or SIGTERM: signal.NotifyContext cancels the context
Cancel ==
    /\ ~ cancelled
    /\ cancelled' = TRUE
    /\ UNCHANGED <<ddnsConfig, hasRequiredIP, healthy, records, isActive, monPc,
                   ddnsPc, nextActiveGateways, lastActiveIPs, updateChanClosed,
                   updaterLocals, unloaded>>
    /\ UNCHANGED <<routeVars, callVars>>

\* the required address appears on or leaves the interfaces
InterfaceChange ==
    /\ requireIP
    /\ hasRequiredIP' = ~ hasRequiredIP
    /\ UNCHANGED <<ddnsConfig, healthy, records, cancelled, isActive, monPc, ddnsPc,
                   nextActiveGateways, lastActiveIPs, updateChanClosed,
                   updaterLocals, unloaded>>
    /\ UNCHANGED <<routeVars, callVars>>

\* the outside starts or stops failing calls
HealthChange ==
    /\ healthy' = ~ healthy
    /\ UNCHANGED <<ddnsConfig, hasRequiredIP, records, cancelled, isActive, monPc,
                   ddnsPc, nextActiveGateways, lastActiveIPs, updateChanClosed,
                   updaterLocals, unloaded>>
    /\ UNCHANGED <<routeVars, callVars>>

MonitorLoop ==
    \/ checkGateways
    \/ updateRoutes
    \/ ScheduleUpdate
    \/ ScheduleUpdateSend
    \/ MonitorStopped

UpdaterTask ==
    \/ RunSelect
    \/ RunReturns
    \/ UpdaterClose
    \/ updateLoad
    \/ updateRequiredIP
    \/ updateFetch
    \/ updateCompare

Environment ==
    \/ Cancel
    \/ InterfaceChange
    \/ HealthChange

DDNSNext ==
    \/ MonitorLoop
    \/ UpdaterTask
    \/ Environment

\* the route plane as a successful NewNetlinkManager leaves it
RouteReady ==
    /\ cfg = Config(<<>>, 100, 1000)
    /\ m = ManagerFields(<<>>, 100, 1000)
    /\ rules = AddAll(SystemRules, AddList(m))
    /\ routes = MainRoutes
    /\ rules0 = SystemRules
    /\ routes0 = MainRoutes
    /\ handleOpen = TRUE
    /\ pc = "ready"
    /\ phase = "init"
    /\ todo = <<>>
    /\ pending = {}
    /\ arg = <<>>
    /\ res = Result("init", {})
    /\ failures = 0

vars == <<routeVars, ddnsVars, callVars>>

\* the route-plane installer on its own: the updater is not started
DDNSOff == DDNSStart("", FALSE, [g \in GatewayIPs |-> 3], {}, TRUE, TRUE)

Init == RouteInit /\ DDNSOff /\ CallIdle

Next == RouteNext

Spec == Init /\ [][Next]_vars

\* the monitor loop and the updater
InitDDNS == RouteReady /\ DDNSInit /\ CallIdle

NextDDNS == DDNSNext

SpecDDNS == InitDDNS /\ [][NextDDNS]_vars

\* the Go scheduler runs every runnable goroutine, the ticker keeps firing
FairSpecDDNS ==
    SpecDDNS /\ WF_vars(MonitorLoop) /\ WF_vars(UpdaterTask)

(***************************************************************************)
(* ScheduleUpdate called with any list of distinct gateways, in any order, *)
(* while the updater goroutine runs                                        *)
(***************************************************************************)
\* a caller picks the list it is going to schedule
ScheduleCaller ==
    /\ monPc \in {"initial", "select"}
    /\ callArg' \in ActiveLists
    /\ monPc' = "call"
    /\ UNCHANGED <<ddnsConfig, hasRequiredIP, healthy, records, cancelled, isActive,
                   ddnsPc, nextActiveGateways, lastActiveIPs, updateChanClosed,
                   updaterLocals, unloaded>>
    /\ UNCHANGED <<routeVars, callRet>>

\* ScheduleUpdate with that list, up to the Swap
ScheduleUpdateAny ==
    /\ monPc = "call"
    /\ ScheduleUpdateCall(callArg)

InitSchedule == InitDDNS

NextSchedule ==
    \/ ScheduleCaller
    \/ ScheduleUpdateAny
    \/ ScheduleUpdateSend
    \/ UpdaterTask
    \/ Environment

SpecSchedule == InitSchedule /\ [][NextSchedule]_vars

(***************************************************************************)
(* DynuDNSProvider.UpdateRecords called on any zone with any list          *)
(***************************************************************************)
\* records a zone may hold: A-records of the node (two of them with one
\* address), an A-record of another node and a record of another type
ZonePool ==
    { ARecord(1, 3), ARecord(2, 5), ARecord(3, 5),
      DNSRecord(4, "mail", "A", 5), DNSRecord(5, HostNode, "TXT", -1) }

DynuZones == SUBSET ZonePool

DynuIPLists == SeqsUpTo(PublicIPPool, Cardinality(PublicIPPool))

InitDynu ==
    /\ RouteReady
    /\ \E zone \in DynuZones, ips \in DynuIPLists :
          /\ DDNSStart("DynuDNS", FALSE, [g \in GatewayIPs |-> 3], zone, TRUE, TRUE)
          /\ callArg = [ips |-> ips, zone |-> zone]
    /\ callRet = NoReturn

\* one UpdateRecords call, returning nil or an error
DynuUpdate ==
    /\ callRet = NoReturn
    /\ \E err \in BOOLEAN :
          IF err
          THEN /\ records' \in DynuUpdateRecordsFailed(records, callArg.ips)
               /\ callRet' = Return("error")
          ELSE /\ records' \in DynuUpdateRecords(records, callArg.ips)
               /\ callRet' = Return("ok")
    /\ UNCHANGED <<ddnsConfig, hasRequiredIP, healthy, cancelled, isActive, monPc,
                   ddnsPc, nextActiveGateways, lastActiveIPs, updateChanClosed,
                   updaterLocals, unloaded>>
    /\ UNCHANGED <<routeVars, callArg>>

NextDynu == DynuUpdate

SpecDynu == InitDynu /\ [][NextDynu]_vars

(***************************************************************************)
(* iputil.ReduceNetworks called on any list of prefixes and nil entries    *)
(***************************************************************************)
NetworkLists == SeqsUpTo(Prefixes \cup {NilNet}, MaxNetworks)

InitReduce ==
    /\ RouteReady
    /\ DDNSOff
    /\ callArg \in NetworkLists
    /\ callRet = NoReturn

\* one ReduceNetworks call
ReduceCall ==
    /\ callRet = NoReturn
    /\ callRet' = Return(ReduceNetworks(callArg))
    /\ UNCHANGED <<routeVars, ddnsVars, callArg>>

NextReduce == ReduceCall

SpecReduce == InitReduce /\ [][NextReduce]_vars

(***************************************************************************)
(* gateway.GenerateGateways with iputil.IncrementIP and iputil.IsIPGreater *)
(*                                                                         *)
(* An address is the tuple of its bytes, most significant first.  The      *)
(* for-loop runs one iteration per step; currentIP and the gateways        *)
(* appended so far are kept in callRet until the function returns.         *)
(***************************************************************************)
IPs == [1 .. IPLen -> 0 .. ByteMax]

IPv4bcast == [j \in 1 .. IPLen |-> ByteMax]

\* the first byte that differs decides
IsIPGreater(ip1, ip2) ==
    LET differ == { i \in 1 .. IPLen : ip1[i] # ip2[i] }
    IN  IF differ = {} THEN FALSE
        ELSE LET i == CHOOSE k \in differ : \A l \in differ : k <= l
             IN  ip1[i] > ip2[i]

\* ip[j]++ from byte j down to the first byte that does not wrap to zero
RECURSIVE IncrementFrom(_, _)
IncrementFrom(ip, j) ==
    IF j < 1 THEN ip
    ELSE LET b == (ip[j] + 1) % (ByteMax + 1)
             next == [ip EXCEPT ![j] = b]
         IN  IF b > 0 THEN next ELSE IncrementFrom(next, j - 1)

\* an increment of the last byte alone, without the carry
IncrementIPNoCarry(ip) ==
    IF ip = IPv4bcast THEN [err |-> TRUE, ip |-> ip]
    ELSE [err |-> FALSE, ip |-> [ip EXCEPT ![IPLen] = (ip[IPLen] + 1) % (ByteMax + 1)]]

\* IncrementIP: an error for the largest address, the next address otherwise
IncrementIP(ip) ==
    IF ip = IPv4bcast THEN [err |-> TRUE, ip |-> ip]
    ELSE [err |-> FALSE, ip |-> IncrementFrom(ip, IPLen)]

\* net.IP.String: the bytes in decimal, joined by dots
RECURSIVE DottedFrom(_, _)
DottedFrom(ip, j) ==
    IF j = 1 THEN ToString(ip[1])
    ELSE DottedFrom(ip, j - 1) \o "." \o ToString(ip[j])

DottedString(ip) == DottedFrom(ip, IPLen)

\* the Gateway appended for an address; the fields the literal leaves out
\* have their zero values
NewGateway(ip, c) ==
    [IP |-> ip,
     URL |-> c.scheme \o "://" \o DottedString(ip) \o ":" \o ToString(c.port) \o c.path,
     IsActive |-> FALSE,
     ConsecutiveFailures |-> 0,
     PublicIP |-> ""]

\* port, path and scheme of the probes
Probes ==
    { [port |-> 80, path |-> "/", scheme |-> "http"],
      [port |-> 8443, path |-> "/healthz", scheme |-> "https"] }

InitGenerate ==
    /\ RouteReady
    /\ DDNSOff
    /\ \E startIP \in IPs, endIP \in IPs, probe \in Probes :
          /\ callArg = [startIP |-> startIP, endIP |-> endIP, port |-> probe.port,
                        path |-> probe.path, scheme |-> probe.scheme]
          /\ callRet = [done |-> FALSE, currentIP |-> startIP, gateways |-> <<>>]

\* one iteration of the loop of GenerateGateways
GenerateGateways ==
    /\ ~ callRet.done
    /\ LET gateways == Append(callRet.gateways, NewGateway(callRet.currentIP, callArg))
           inc == IncrementIP(callRet.currentIP)
       IN  callRet' =
              IF callRet.currentIP = callArg.endIP
              THEN Return([gateways |-> gateways, err |-> FALSE])
              ELSE IF inc.err
              THEN Return([gateways |-> <<>>, err |-> TRUE])
              ELSE IF IsIPGreater(inc.ip, callArg.endIP)
              THEN Return([gateways |-> gateways, err |-> FALSE])
              ELSE [done |-> FALSE, currentIP |-> inc.ip, gateways |-> gateways]
    /\ UNCHANGED <<routeVars, ddnsVars, callArg>>

NextGenerate == GenerateGateways

SpecGenerate == InitGenerate /\ [][NextGenerate]_vars

(***************************************************************************)
(* iputil.IncrementIP called on any byte slice                             *)
(*                                                                         *)
(* A net.IP is a slice of bytes: IPLen bytes, or the longer form whose     *)
(* leading bytes are the IPv4-in-IPv6 prefix (zero bytes, then bytes of    *)
(* all ones) followed by the IPLen address bytes.                          *)
(***************************************************************************)
v4InV6Prefix == <<0, ByteMax>>

IPSlices == SeqsUpTo(0 .. ByteMax, IPLen + Len(v4InV6Prefix))

\* net.IP.To4: the index of the first address byte, 0 for a slice that is
\* not an IPv4 address; the result shares the bytes of the slice
To4(ip) ==
    IF Len(ip) = IPLen THEN 1
    ELSE IF /\ Len(ip) = IPLen + Len(v4InV6Prefix)
            /\ SubSeq(ip, 1, Len(v4InV6Prefix)) = v4InV6Prefix
         THEN Len(v4InV6Prefix) + 1
         ELSE 0

\* one IncrementIP call: the error and the caller's slice after it
IncrementIPCall ==
    /\ callRet = NoReturn
    /\ LET first == To4(callArg)
       IN  callRet' =
              IF first = 0 THEN Return([err |-> TRUE, ip |-> callArg])
              ELSE LET inc == IncrementIP(SubSeq(callArg, first, Len(callArg)))
                   IN  Return([err |-> inc.err,
                               ip |-> SubSeq(callArg, 1, first - 1) \o inc.ip])
    /\ UNCHANGED <<routeVars, ddnsVars, callArg>>

InitIncrement ==
    /\ RouteReady
    /\ DDNSOff
    /\ callArg \in IPSlices
    /\ callRet = NoReturn

NextIncrement == IncrementIPCall

SpecIncrement == InitIncrement /\ [][NextIncrement]_vars

(***************************************************************************)
(* Gateway.FetchPublicIP called on any gateway with any response           *)
(***************************************************************************)
\* texts a body or a JSON field may hold
Texts == {"", "203.0.113.7", " 203.0.113.7 ", "not.an.ip", "2001:db8::1"}

\* strings.TrimSpace
TrimSpace(t) == IF t = " 203.0.113.7 " THEN "203.0.113.7" ELSE t

\* net.ParseIP followed by To4: an IPv4 address, another address, or nil
ParseIP(t) ==
    IF t = "203.0.113.7" THEN "v4"
    ELSE IF t = "2001:db8::1" THEN "v6"
    ELSE "nil"

\* a JSON value: a string, or a value of another type
JSONValues ==
    { [string |-> TRUE, s |-> t] : t \in {"", "203.0.113.7", "not.an.ip"} }
        \cup { [string |-> FALSE, s |-> ""] }

JSONKeys == {"public_ip", "ip_address", "ip_addr", "ip", "origin"}

\* JSON objects with up to two members
JSONObjects ==
    UNION { [K -> JSONValues] : K \in { K \in SUBSET JSONKeys : Cardinality(K) <= 2 } }

\* a body that unmarshals into a map, or any other text
Bodies ==
    { [json |-> TRUE, obj |-> o, text |-> ""] : o \in JSONObjects }
        \cup { [json |-> FALSE, obj |-> [k \in {} |-> ""], text |-> t] : t \in Texts }

Statuses == {199, 200, 201, 204, 299, 300, 404, 500}

\* what client.Do and io.ReadAll yield: a response, a transport error
\* without response, or an error while the body is read
Responses ==
    { [transport |-> "ok", status |-> c, body |-> b] : c \in Statuses, b \in Bodies }
        \cup { [transport |-> x, status |-> StatusOK,
                body |-> [json |-> FALSE, obj |-> [k \in {} |-> ""], text |-> ""]] :
                  x \in {"error", "read_error"} }

FetchResult(err, publicIP, requests) ==
    [err |-> err, PublicIP |-> publicIP, requests |-> requests]

\* the status check of FetchPublicIP
statusRejected(code) == code # StatusOK

ipAddressKeys == <<"public_ip", "ip_address", "ip_addr", "ip">>

\* the first recognised key whose value is a non-empty string, "" when none
RECURSIVE firstAddress(_, _)
firstAddress(obj, keys) ==
    IF keys = <<>> THEN ""
    ELSE LET k == Head(keys)
         IN  IF k \in DOMAIN obj /\ obj[k].string /\ obj[k].s # ""
             THEN obj[k].s
             ELSE firstAddress(obj, Tail(keys))

\* a validation that stores the text before it is parsed
storeBeforeValidation(g, publicIP) ==
    IF ParseIP(publicIP) = "nil" THEN FetchResult("invalid_ip", publicIP, 1)
    ELSE IF ParseIP(publicIP) = "v6" THEN FetchResult("non_ipv4", publicIP, 1)
    ELSE FetchResult("", publicIP, 1)

\* the end of FetchPublicIP: ParseIP, To4, and the store on success
storePublicIP(g, publicIP) ==
    IF ParseIP(publicIP) = "nil" THEN FetchResult("invalid_ip", g.PublicIP, 1)
    ELSE IF ParseIP(publicIP) = "v6" THEN FetchResult("non_ipv4", g.PublicIP, 1)
    ELSE FetchResult("", publicIP, 1)

\* FetchPublicIP: the error ("" for nil), the gateway's PublicIP after the
\* call and the number of requests issued
FetchPublicIP(g, resp) ==
    IF ~ g.IsActive THEN FetchResult("not_active", g.PublicIP, 0)
    ELSE IF resp.transport = "read_error" THEN FetchResult("read_body", g.PublicIP, 1)
    ELSE IF resp.transport = "error" THEN FetchResult("transport", g.PublicIP, 1)
    ELSE IF statusRejected(resp.status) THEN FetchResult("status", g.PublicIP, 1)
    ELSE IF resp.body.json
    THEN LET publicIP == firstAddress(resp.body.obj, ipAddressKeys)
         IN  IF publicIP = "" THEN FetchResult("no_field", g.PublicIP, 1)
             ELSE storePublicIP(g, TrimSpace(publicIP))
    ELSE storePublicIP(g, TrimSpace(resp.body.text))

InitFetch ==
    /\ RouteReady
    /\ DDNSOff
    /\ \E active \in BOOLEAN, before \in {"", "198.51.100.2"}, resp \in Responses :
          callArg = [g |-> [IsActive |-> active, PublicIP |-> before], resp |-> resp]
    /\ callRet = NoReturn

\* one FetchPublicIP call
FetchPublicIPCall ==
    /\ callRet = NoReturn
    /\ callRet' = Return(FetchPublicIP(callArg.g, callArg.resp))
    /\ UNCHANGED <<routeVars, ddnsVars, callArg>>

NextFetch == FetchPublicIPCall

SpecFetch == InitFetch /\ [][NextFetch]_vars

(***************************************************************************)
(* GatewayMonitor.performCheckCycle, one call, with its probe goroutines   *)
(*                                                                         *)
(* callArg holds the gateways and the scheduled snapshot as the cycle      *)
(* finds them; callRet holds the position of performCheckCycle (pc), the   *)
(* probe goroutines (task), the gateways' fields, the calls made so far    *)
(* (updateFailed: the route update returned an error) and the counters the *)
(* cycle bumps.                                                            *)
(***************************************************************************)
CycleStart(active, failed, scheduled) ==
    [IsActive |-> active, ConsecutiveFailures |-> failed, nextActive |-> scheduled]

InitCycle ==
    /\ RouteReady
    /\ DDNSOff
    /\ \E active \in [GatewayIPs -> BOOLEAN], failed \in [GatewayIPs -> 0 .. 1],
          scheduled \in ActiveLists :
          /\ callArg = CycleStart(active, failed, scheduled)
          /\ callRet = [done |-> FALSE, pc |-> "spawn", spawned |-> 0,
                        task |-> [g \in GatewayIPs |-> "idle"],
                        IsActive |-> active, ConsecutiveFailures |-> failed,
                        activeGateways |-> <<>>, calls |-> <<>>,
                        nextActive |-> scheduled, signals |-> 0,
                        updateFailed |-> FALSE, routeErrors |-> 0,
                        checkCycles |-> 0, err |-> FALSE]

\* checkGateways: wg.Add and the go statement for the next gateway
cycleSpawn ==
    /\ callRet.pc = "spawn"
    /\ LET i == callRet.spawned + 1
       IN  callRet' = [callRet EXCEPT !.spawned = i,
                                      !.task[GatewayList[i]] = "probe",
                                      !.pc = IF i = Len(GatewayList) THEN "wait" ELSE "spawn"]
    /\ UNCHANGED <<routeVars, ddnsVars, callArg>>

\* a probe goroutine: gateway.IsActive = gm.checkGateway(...)
probeCheck ==
    /\ \E g \in GatewayIPs, ok \in BOOLEAN :
          /\ callRet.task[g] = "probe"
          /\ callRet' = [callRet EXCEPT !.IsActive[g] = ok, !.task[g] = "count"]
    /\ UNCHANGED <<routeVars, ddnsVars, callArg>>

\* a probe goroutine: the ConsecutiveFailures update and wg.Done
probeCount ==
    /\ \E g \in GatewayIPs :
          /\ callRet.task[g] = "count"
          /\ callRet' = [callRet EXCEPT
                            !.ConsecutiveFailures[g] = IF callRet.IsActive[g] THEN 0 ELSE @ + 1,
                            !.task[g] = "done"]
    /\ UNCHANGED <<routeVars, ddnsVars, callArg>>

\* a wait that returns although goroutines are still running
cycleWaitForNone ==
    /\ callRet.pc = "wait"
    /\ callRet' = [callRet EXCEPT !.pc = "collect"]
    /\ UNCHANGED <<routeVars, ddnsVars, callArg>>

\* checkGateways: wg.Wait returns when every goroutine has called Done
cycleWait ==
    /\ callRet.pc = "wait"
    /\ \A g \in GatewayIPs : callRet.task[g] = "done"
    /\ callRet' = [callRet EXCEPT !.pc = "collect"]
    /\ UNCHANGED <<routeVars, ddnsVars, callArg>>

\* performCheckCycle: the loop that collects the active gateways
cycleCollect ==
    /\ callRet.pc = "collect"
    /\ callRet' = [callRet EXCEPT
                      !.activeGateways = SelectSeq(GatewayList, LAMBDA g : callRet.IsActive[g]),
                      !.pc = "routes"]
    /\ UNCHANGED <<routeVars, ddnsVars, callArg>>

\* a failed route update that is counted and then ignored
cycleUpdateRoutesGoesOn ==
    /\ callRet.pc = "routes"
    /\ \E fail \in BOOLEAN :
          callRet' =
             IF fail
             THEN [callRet EXCEPT !.calls = Append(@, "updateRoutes"),
                                  !.updateFailed = TRUE, !.routeErrors = @ + 1, !.pc = "schedule"]
             ELSE [callRet EXCEPT !.calls = Append(@, "updateRoutes"), !.pc = "schedule"]
    /\ UNCHANGED <<routeVars, ddnsVars, callArg>>

\* performCheckCycle: updateRoutes; its error is counted and returned
cycleUpdateRoutes ==
    /\ callRet.pc = "routes"
    /\ \E fail \in BOOLEAN :
          callRet' =
             IF fail
             THEN [callRet EXCEPT !.calls = Append(@, "updateRoutes"),
                                  !.updateFailed = TRUE, !.routeErrors = @ + 1, !.err = TRUE,
                                  !.pc = "return", !.done = TRUE]
             ELSE [callRet EXCEPT !.calls = Append(@, "updateRoutes"), !.pc = "schedule"]
    /\ UNCHANGED <<routeVars, ddnsVars, callArg>>

\* performCheckCycle: ScheduleUpdate, which swaps the snapshot and signals
\* when the sorted addresses differ from those scheduled
cycleSchedule ==
    /\ callRet.pc = "schedule"
    /\ callRet' =
          IF slicesSort(callRet.activeGateways) = slicesSort(callRet.nextActive)
          THEN [callRet EXCEPT !.calls = Append(@, "ScheduleUpdate"), !.pc = "count"]
          ELSE [callRet EXCEPT !.calls = Append(@, "ScheduleUpdate"),
                               !.nextActive = callRet.activeGateways,
                               !.signals = @ + 1, !.pc = "count"]
    /\ UNCHANGED <<routeVars, ddnsVars, callArg>>

\* performCheckCycle: CheckCyclesTotal.Inc and return nil
cycleCount ==
    /\ callRet.pc = "count"
    /\ callRet' = [callRet EXCEPT !.checkCycles = @ + 1, !.pc = "return", !.done = TRUE]
    /\ UNCHANGED <<routeVars, ddnsVars, callArg>>

NextCycle ==
    \/ cycleSpawn
    \/ probeCheck
    \/ probeCount
    \/ cycleWait
    \/ cycleCollect
    \/ cycleUpdateRoutes
    \/ cycleSchedule
    \/ cycleCount

SpecCycle == InitCycle /\ [][NextCycle]_vars

(***************************************************************************)
(* Updater.update, one pass called from Updater.Run                        *)
(*                                                                         *)
(* callArg holds what the pass finds: the configuration, the interfaces,   *)
(* the gateways' public addresses, next_active and lastActiveIPs. callRet  *)
(* holds the position of update (pc), its locals, lastActiveIPs, whether   *)
(* the pass context is done (cancelled or timed out), and the calls and    *)
(* skip counts the pass has made so far.                                   *)
(***************************************************************************)
\* lists that lastActiveIPs can hold: update stores only sorted unique lists
PublishedLists == { uniqueSorted(l) : l \in SeqsUpTo(PublicIPPool, Cardinality(PublicIPPool)) }

InitUpdate ==
    /\ RouteReady
    /\ DDNSOff
    /\ \E required \in BOOLEAN, present \in BOOLEAN, addrs \in PublicIPMaps,
          active \in SUBSET GatewayIPs, published \in PublishedLists :
          /\ callArg = [requireIP |-> required, hasRequiredIP |-> present,
                        publicIPOf |-> addrs,
                        nextActiveGateways |-> collectActive(active),
                        lastActiveIPs |-> published]
          /\ callRet = [done |-> FALSE, pc |-> "load", ctxDone |-> FALSE,
                        activeGateways |-> <<>>, toFetch |-> <<>>, publicIPs |-> <<>>,
                        nextActiveGateways |-> collectActive(active),
                        lastActiveIPs |-> published,
                        fetches |-> <<>>, fetched |-> <<>>, providerCalls |-> <<>>,
                        skipped |-> <<>>, err |-> FALSE]

\* the pass returns
passReturn(r, err) == [r EXCEPT !.pc = "return", !.done = TRUE, !.err = err]

\* update: loads the scheduled snapshot
passLoad ==
    /\ callRet.pc = "load"
    /\ callRet' = [callRet EXCEPT
                      !.activeGateways = callRet.nextActiveGateways,
                      !.toFetch = callRet.nextActiveGateways,
                      !.pc = IF callArg.requireIP THEN "gate"
                             ELSE IF callRet.nextActiveGateways = <<>> THEN "compare"
                             ELSE "fetch"]
    /\ UNCHANGED <<routeVars, ddnsVars, callArg>>

\* a gate that lets the pass go on without the required address
passRequiredIPIgnored ==
    /\ callRet.pc = "gate"
    /\ \E failed \in BOOLEAN :
          callRet' =
             IF failed THEN passReturn(callRet, TRUE)
             ELSE [callRet EXCEPT !.pc = IF callRet.toFetch = <<>> THEN "compare" ELSE "fetch"]
    /\ UNCHANGED <<routeVars, ddnsVars, callArg>>

\* update: HasInterfaceWithIP; its error ends the pass with the error, a
\* missing address ends it with the skip counted
passRequiredIP ==
    /\ callRet.pc = "gate"
    /\ \E failed \in BOOLEAN :
          callRet' =
             IF failed THEN passReturn(callRet, TRUE)
             ELSE IF ~ callArg.hasRequiredIP
             THEN passReturn([callRet EXCEPT
                                !.skipped = Append(@, "required_ip_not_found")], FALSE)
             ELSE [callRet EXCEPT !.pc = IF callRet.toFetch = <<>> THEN "compare" ELSE "fetch"]
    /\ UNCHANGED <<routeVars, ddnsVars, callArg>>

\* a fetch loop that a failed fetch ends
passFetchAborts ==
    /\ callRet.pc = "fetch"
    /\ LET gw == Head(callRet.toFetch)
       IN  \E ok \in IF callRet.ctxDone THEN {FALSE} ELSE BOOLEAN :
              callRet' = [callRet EXCEPT
                            !.fetches = Append(@, gw),
                            !.fetched = IF ok THEN Append(@, gw) ELSE @,
                            !.publicIPs = IF ok THEN Append(@, callArg.publicIPOf[gw]) ELSE @,
                            !.toFetch = IF ok THEN Tail(@) ELSE <<>>,
                            !.pc = IF ~ ok \/ Tail(callRet.toFetch) = <<>>
                                   THEN "compare" ELSE "fetch"]
    /\ UNCHANGED <<routeVars, ddnsVars, callArg>>

\* update: one FetchPublicIP of the loop, which fails once the context is
\* done; a failure skips the gateway
passFetch ==
    /\ callRet.pc = "fetch"
    /\ LET gw == Head(callRet.toFetch)
       IN  \E ok \in IF callRet.ctxDone THEN {FALSE} ELSE BOOLEAN :
              callRet' = [callRet EXCEPT
                            !.fetches = Append(@, gw),
                            !.fetched = IF ok THEN Append(@, gw) ELSE @,
                            !.publicIPs = IF ok THEN Append(@, callArg.publicIPOf[gw]) ELSE @,
                            !.toFetch = Tail(@),
                            !.pc = IF Tail(callRet.toFetch) = <<>> THEN "compare" ELSE "fetch"]
    /\ UNCHANGED <<routeVars, ddnsVars, callArg>>

\* a comparison that stores the list also when the provider call failed
passCompareStoresOnFailure ==
    /\ callRet.pc = "compare"
    /\ LET ips == uniqueSorted(callRet.publicIPs)
       IN  IF ips # callRet.lastActiveIPs
           THEN \E ok \in IF callRet.ctxDone THEN {FALSE} ELSE BOOLEAN :
                   callRet' = passReturn([callRet EXCEPT
                                            !.providerCalls = Append(@, [ips |-> ips, ok |-> ok]),
                                            !.lastActiveIPs = ips], ~ ok)
           ELSE callRet' = passReturn([callRet EXCEPT
                                         !.skipped = Append(@, "no_change"),
                                         !.lastActiveIPs = ips], FALSE)
    /\ UNCHANGED <<routeVars, ddnsVars, callArg>>

\* a comparison that calls the provider whatever the lists are
passCompareAlwaysCalls ==
    /\ callRet.pc = "compare"
    /\ LET ips == uniqueSorted(callRet.publicIPs)
       IN  \E ok \in IF callRet.ctxDone THEN {FALSE} ELSE BOOLEAN :
              callRet' = passReturn([callRet EXCEPT
                                       !.providerCalls = Append(@, [ips |-> ips, ok |-> ok]),
                                       !.lastActiveIPs = IF ok THEN ips ELSE @], ~ ok)
    /\ UNCHANGED <<routeVars, ddnsVars, callArg>>

\* update: compares the sorted unique list with lastActiveIPs; when they
\* differ it calls the provider, which fails once the context is done, and
\* returns its error; otherwise it counts the skip; then it stores the list
passCompare ==
    /\ callRet.pc = "compare"
    /\ LET ips == uniqueSorted(callRet.publicIPs)
       IN  IF ips # callRet.lastActiveIPs
           THEN \E ok \in IF callRet.ctxDone THEN {FALSE} ELSE BOOLEAN :
                   callRet' = passReturn([callRet EXCEPT
                                            !.providerCalls = Append(@, [ips |-> ips, ok |-> ok]),
                                            !.lastActiveIPs = IF ok THEN ips ELSE @], ~ ok)
           ELSE callRet' = passReturn([callRet EXCEPT
                                         !.skipped = Append(@, "no_change"),
                                         !.lastActiveIPs = ips], FALSE)
    /\ UNCHANGED <<routeVars, ddnsVars, callArg>>

\* Run: the context of the pass is cancelled, or its DDNSTimeout expires
passContextDone ==
    /\ ~ callRet.done
    /\ ~ callRet.ctxDone
    /\ callRet' = [callRet EXCEPT !.ctxDone = TRUE]
    /\ UNCHANGED <<routeVars, ddnsVars, callArg>>

NextUpdate ==
    \/ passLoad
    \/ passRequiredIP
    \/ passFetch
    \/ passCompare
    \/ passContextDone

SpecUpdate == InitUpdate /\ [][NextUpdate]_vars

(***************************************************************************)
(* Successive check cycles next to the updater's passes, with the memory   *)
(* the two share                                                           *)
(*                                                                         *)
(* callRet holds gm.gateways, the slices the cycles have built (slices,    *)
(* by number; madeFrom remembers the addresses each was built from and     *)
(* probes the response status each gateway's probes received, 0 for none), *)
(* the slice next_active refers to, the position of the cycle and of the   *)
(* updater, the pass's loop copy gw, the number of signals in updateChan's *)
(* buffer, and counts of the signals the channel took, handed to Run and   *)
(* dropped.                                                                *)
(***************************************************************************)
\* outcomes of a probe: no response, or the status of the response
ProbeStatuses == {0, 199, 200, 299, 300}

\* a Gateway value
GatewayValue(ip, active, failed, public) ==
    [IP |-> ip, IsActive |-> active, ConsecutiveFailures |-> failed, PublicIP |-> public]

\* a check that takes only 200 for a success
probeSucceededOnlyOK(status) == status = StatusOK

\* checkGateway: a response with a 2xx status
probeSucceeded(status) == status >= 200 /\ status < 300

InitCycles ==
    /\ RouteReady
    /\ DDNSOff
    /\ callArg = [g \in GatewayIPs |-> IF g = 2 THEN 3 ELSE 12]
    /\ callRet = [done |-> FALSE, cycle |-> 0, monPc |-> "select", toProbe |-> {},
                  gateways |-> [g \in GatewayIPs |-> GatewayValue(g, FALSE, 0, 0)],
                  probes |-> [g \in GatewayIPs |-> <<>>],
                  slices |-> << <<>> >>, madeFrom |-> << <<>> >>,
                  activeGateways |-> 1, nextActiveGateways |-> 1,
                  updPc |-> "run", loaded |-> 1, index |-> 1,
                  gw |-> GatewayValue(0, FALSE, 0, 0), ranged |-> <<>>,
                  updateChan |-> 0, signalsSent |-> 0, signalsReceived |-> 0,
                  signalsDropped |-> 0]

\* Run: the initial check or a tick starts performCheckCycle, whose
\* checkGateways starts a probe goroutine per gateway
cyclesStart ==
    /\ callRet.monPc = "select"
    /\ callRet.cycle < MaxCycles
    /\ callRet' = [callRet EXCEPT !.cycle = @ + 1, !.monPc = "probe", !.toProbe = GatewayIPs]
    /\ UNCHANGED <<routeVars, ddnsVars, callArg>>

\* a probe goroutine: checkGateway, then IsActive and ConsecutiveFailures of
\* its gateway; wg.Wait returns after the last of them
cyclesProbe ==
    /\ callRet.monPc = "probe"
    /\ \E g \in callRet.toProbe, status \in ProbeStatuses :
          callRet' = [callRet EXCEPT
                        !.gateways[g].IsActive = probeSucceeded(status),
                        !.gateways[g].ConsecutiveFailures =
                            IF probeSucceeded(status) THEN 0 ELSE @ + 1,
                        !.probes[g] = Append(@, status),
                        !.toProbe = @ \ {g},
                        !.monPc = IF callRet.toProbe = {g} THEN "collect" ELSE "probe"]
    /\ UNCHANGED <<routeVars, ddnsVars, callArg>>

\* the Gateway values with IsActive set, in gm.gateways order
activeValues(gws) ==
    LET active == SelectSeq(GatewayList, LAMBDA g : gws[g].IsActive)
    IN  [i \in 1 .. Len(active) |-> gws[active[i]]]

\* a collection that fills the slice of the cycle before
cyclesCollectReusesSlice ==
    /\ callRet.monPc = "collect"
    /\ callRet' =
          IF callRet.activeGateways = 1
          THEN [callRet EXCEPT
                  !.slices = Append(@, activeValues(callRet.gateways)),
                  !.madeFrom = Append(@, SelectSeq(GatewayList,
                                         LAMBDA g : callRet.gateways[g].IsActive)),
                  !.activeGateways = Len(callRet.slices) + 1,
                  !.monPc = "schedule"]
          ELSE [callRet EXCEPT
                  !.slices[callRet.activeGateways] = activeValues(callRet.gateways),
                  !.monPc = "schedule"]
    /\ UNCHANGED <<routeVars, ddnsVars, callArg>>

\* performCheckCycle: a new slice, to which the gateways with IsActive set
\* are appended by value
cyclesCollect ==
    /\ callRet.monPc = "collect"
    /\ callRet' = [callRet EXCEPT
                      !.slices = Append(@, activeValues(callRet.gateways)),
                      !.madeFrom = Append(@, SelectSeq(GatewayList,
                                             LAMBDA g : callRet.gateways[g].IsActive)),
                      !.activeGateways = Len(callRet.slices) + 1,
                      !.monPc = "schedule"]
    /\ UNCHANGED <<routeVars, ddnsVars, callArg>>

\* the addresses of a slice of gateways
addressesOf(slice) == [i \in 1 .. Len(slice) |-> slice[i].IP]

\* the non-blocking send of ScheduleUpdate on a channel of capacity cap: to
\* Run waiting in its select, else into the buffer, else the default case
sendSignal(r, cap) ==
    IF r.updPc = "select"
    THEN [r EXCEPT !.updPc = "update", !.signalsSent = @ + 1, !.signalsReceived = @ + 1]
    ELSE IF r.updateChan < cap
    THEN [r EXCEPT !.updateChan = @ + 1, !.signalsSent = @ + 1]
    ELSE [r EXCEPT !.signalsDropped = @ + 1]

\* a ScheduleUpdate whose channel takes every signal
cyclesScheduleQueues ==
    /\ callRet.monPc = "schedule"
    /\ callRet' =
          IF slicesSort(addressesOf(callRet.slices[callRet.activeGateways]))
                = slicesSort(addressesOf(callRet.slices[callRet.nextActiveGateways]))
          THEN [callRet EXCEPT !.monPc = "select"]
          ELSE sendSignal([callRet EXCEPT !.nextActiveGateways = callRet.activeGateways,
                                          !.monPc = "select"], MaxCycles)
    /\ UNCHANGED <<routeVars, ddnsVars, callArg>>

\* ScheduleUpdate: when the cycle's sorted addresses differ from those of the
\* slice scheduled, swaps the cycle's slice in and signals
cyclesSchedule ==
    /\ callRet.monPc = "schedule"
    /\ callRet' =
          IF slicesSort(addressesOf(callRet.slices[callRet.activeGateways]))
                = slicesSort(addressesOf(callRet.slices[callRet.nextActiveGateways]))
          THEN [callRet EXCEPT !.monPc = "select"]
          ELSE sendSignal([callRet EXCEPT !.nextActiveGateways = callRet.activeGateways,
                                          !.monPc = "select"], UpdateChanCap)
    /\ UNCHANGED <<routeVars, ddnsVars, callArg>>

\* Updater.Run: the select takes a signal from the buffer, or waits
cyclesRunSelect ==
    /\ callRet.updPc = "run"
    /\ callRet' = IF callRet.updateChan > 0
                  THEN [callRet EXCEPT !.updateChan = @ - 1, !.signalsReceived = @ + 1,
                                       !.updPc = "update"]
                  ELSE [callRet EXCEPT !.updPc = "select"]
    /\ UNCHANGED <<routeVars, ddnsVars, callArg>>

\* update: loads the slice next_active refers to
cyclesLoad ==
    /\ callRet.updPc = "update"
    /\ callRet' = [callRet EXCEPT !.loaded = callRet.nextActiveGateways, !.index = 1,
                                  !.ranged = <<>>, !.updPc = "range"]
    /\ UNCHANGED <<routeVars, ddnsVars, callArg>>

\* update: an iteration of 'for _, gw := range activeGateways' copies the
\* element into gw, and FetchPublicIP writes the copy's PublicIP
cyclesFetch ==
    /\ callRet.updPc = "range"
    /\ LET slice == callRet.slices[callRet.loaded]
       IN  IF callRet.index > Len(slice)
           THEN callRet' = [callRet EXCEPT !.updPc = "run"]
           ELSE \E ok \in BOOLEAN :
                   callRet' = [callRet EXCEPT
                                 !.ranged = Append(@, slice[callRet.index]),
                                 !.gw = IF ok
                                        THEN [slice[callRet.index] EXCEPT
                                                !.PublicIP = callArg[slice[callRet.index].IP]]
                                        ELSE slice[callRet.index],
                                 !.index = @ + 1]
    /\ UNCHANGED <<routeVars, ddnsVars, callArg>>

NextCycles ==
    \/ cyclesStart
    \/ cyclesProbe
    \/ cyclesCollect
    \/ cyclesSchedule
    \/ cyclesRunSelect
    \/ cyclesLoad
    \/ cyclesFetch

SpecCycles == InitCycles /\ [][NextCycles]_vars

(***************************************************************************)
(* Properties of the route-plane installer                                 *)
(***************************************************************************)
\* the destinations UpdateDefaultRoute manages
ManagedDestinations == {DefaultDst}

\* NewNetlinkManager has returned a manager and Close has not been called
Installed == pc \in {"ready", "upd_del"}

\* the latest completed operation is a successful UpdateDefaultRoute
UpdateSucceeded == pc = "ready" /\ res.op = "update" /\ res.ok

GatewayTableRoutes(rts, d) ==
    { x \in rts : x.table = m.gatewayTableID /\ x.dst = d }

StrictlyAscendingByString(s) ==
    \A i \in 1 .. (Len(s) - 1) : StrLess(IPString(s[i]), IPString(s[i + 1]))

C2_EmptyActiveSetPurges ==
    (UpdateSucceeded /\ arg = <<>>) =>
        /\ RouteListFiltered(routes, m.gatewayTableID) = {}
        /\ { x \in routes : x.table # m.gatewayTableID }
             = { x \in routes0 : x.table # m.gatewayTableID }

\* the purge ran on a gateway table that held a plain route and a multipath
\* route to another destination
C2_Witness ==
    /\ UpdateSucceeded
    /\ arg = <<>>
    /\ m.gatewayTableID # MainTable
    /\ Cardinality(RouteListFiltered(routes0, m.gatewayTableID)) = 2
    /\ RouteListFiltered(routes, m.gatewayTableID) = {}
    /\ routes # {}

\* some (table, destination) that has a route before the step has none after
RouteLost ==
    \E x \in routes : ~ \E y \in routes' : y.table = x.table /\ y.dst = x.dst

\* C4: a step loses the route of a destination only inside an update whose
\* active set is empty or inside Close; an update with a non-empty active
\* set never leaves a destination that had a route without one.
C4_ReplaceNeverDeletes ==
    [][ RouteLost => (pc = "cl_del" \/ (pc = "upd_del" /\ arg = <<>>)) ]_vars

\* an update replaced the nexthops of a route that was already in the table
C4_Witness ==
    /\ UpdateSucceeded
    /\ Route(m.gatewayTableID, DefaultDst, <<2>>) \in routes0
    /\ Route(m.gatewayTableID, DefaultDst, <<10, 2>>) \in routes

Excluded(a) == \E i \in 1 .. Len(cfg.excludes) : Contains(cfg.excludes[i], a)

\* before init no rule looks up the table that becomes the gateway table
NoGatewayRuleBefore ==
    \A i \in 1 .. Len(rules0) : rules0[i].table # cfg.firstTableID

\* C3: in every state from the start of init to the end of close, a packet
\* to an address inside a configured exclude prefix is not resolved by the
\* gateway table but by the system's main table (given that no rule looked
\* up the gateway table before init).
C3_ExcludedUsesMainTable ==
    NoGatewayRuleBefore =>
        \A a \in Addrs :
            Excluded(a) =>
                /\ m.gatewayTableID # 0 => Resolve(rules, routes, a) # m.gatewayTableID
                /\ Resolve(rules, routes, a) = MainTable

\* C6: for every accepted configuration the gateway rule's priority is below
\* the fallthrough rule's, which is below 32766, and the system rules at 0,
\* 32766 and 32767 stay as they were.
C6_BandsBelowSystemRules ==
    (m # ZeroManager) =>
        /\ m.gatewayTableRulePreference < m.fallthroughTableRulePreference
        /\ m.fallthroughTableRulePreference < MaxRulePreference
        /\ \A p \in { SystemRules[i].priority : i \in 1 .. Len(SystemRules) } :
              SelectSeq(rules, LAMBDA r : r.priority = p)
                  = SelectSeq(rules0, LAMBDA r : r.priority = p)

\* C7: after an accepted init the gateway table is the first table id, the
\* fallthrough table is the next one, and both lie in 1..253; a first table
\* id outside 1..253 is refused before any rule is listed, added or deleted.
C7_TablesBelowSystemTables ==
    /\ (m # ZeroManager) =>
          /\ m.gatewayTableID = cfg.firstTableID
          /\ m.fallthroughTableID = cfg.firstTableID + 1
          /\ m.gatewayTableID \in 1 .. 253
          /\ m.fallthroughTableID \in 1 .. 253
    /\ (cfg.firstTableID \notin 1 .. 253 /\ pc # "new") =>
          /\ pc = "failed"
          /\ res.errs = {"table"}
          /\ rules = rules0

\* the rule priorities the installer computes for the configuration
BandPriorities ==
    cfg.firstRulePreference ..
        (cfg.firstRulePreference + Len(ReduceNetworks(cfg.excludes)) + 1)

\* the kernel C8 starts from: no rule at a band priority, empty gateway table
CleanStart ==
    /\ \A i \in 1 .. Len(rules0) : rules0[i].priority \notin BandPriorities
    /\ RouteListFiltered(routes0, cfg.firstTableID) = {}

\* C8: from a clean start and with no kernel call failing, init adds exactly
\* the N+2 rules of the bands, and after close the rule list and the routes
\* are exactly what they were before init.
C8_RoundTrip ==
    (CleanStart /\ failures = 0) =>
        /\ Installed =>
              /\ Len(rules) = Len(rules0) + Len(m.excludeNets) + 2
              /\ Range(rules) = Range(rules0) \cup Range(AddList(m))
              /\ Cardinality(Range(AddList(m))) = Len(m.excludeNets) + 2
        /\ (pc = "closed") =>
              /\ rules = rules0
              /\ routes = routes0

\* a run with an exclude rule and an installed ECMP route has been closed
C8_Witness ==
    /\ pc = "closed"
    /\ CleanStart
    /\ failures = 0
    /\ res.ok
    /\ Len(m.excludeNets) = 2
    /\ arg = <<2, 10>>

(***************************************************************************)
(* Properties of the DDNS updater                                          *)
(***************************************************************************)
\* every cycle computes the active set A, the program keeps running and the
\* outside world cooperates
Stable(A) ==
    /\ provider # ""
    /\ ~ cancelled
    /\ healthy
    /\ (requireIP => hasRequiredIP)
    /\ isActive = A

PublicIPsOf(A) == { publicIPOf[g] : g \in A }

\* the addresses of the hostname's A-records
RecordAddresses(zone) == { r.ipv4Address : r \in getExistingRecords(zone) }

\* C9: once every cycle computes the same active set A, the required address
\* is present and every fetch and provider call succeeds, the provider's
\* A-records eventually equal the public addresses of the gateways in A and
\* stay so
C9_DDNSConvergence ==
    \A A \in SUBSET GatewayIPs :
        <>[]Stable(A) => <>[](RecordAddresses(records) = PublicIPsOf(A))

\* C10: a snapshot that ScheduleUpdate swapped in and no pass has loaded
\* never leaves the updater parked in its select with no send under way,
\* where only a further, different schedule could start the next pass
C10_ChangedScheduleNotLost ==
    (unloaded /\ ddnsPc = "select" /\ ~ cancelled) => monPc = "send"

\* two lists hold the same addresses, each as often as the other
SameAddresses(a, b) ==
    \A x \in Range(a) \cup Range(b) :
        Cardinality({ i \in 1 .. Len(a) : a[i] = x })
            = Cardinality({ i \in 1 .. Len(b) : b[i] = x })

\* C11: with a provider configured, a ScheduleUpdate whose list has the same sorted addresses as the
\* scheduled snapshot, in whatever order, returns without replacing
\* nextActiveGateways and without a send; one that does swap leaves a snapshot
\* with the sorted addresses of its list, so the same call repeated at once
\* is such a no-op
C11_ScheduleIdempotent ==
    [][(provider # "" /\ monPc = "call" /\ monPc' # "call") =>
          /\ SameAddresses(nextActiveGateways', callArg)
          /\ (SameAddresses(callArg, nextActiveGateways) =>
                 /\ nextActiveGateways' = nextActiveGateways
                 /\ monPc' = "select"
                 /\ ddnsPc' = ddnsPc
                 /\ unloaded' = unloaded)]_vars

\* a list was scheduled again in another order and nothing was replaced
C11_Witness ==
    /\ monPc = "select"
    /\ callArg = <<10, 2>>
    /\ nextActiveGateways = <<2, 10>>

\* C12: after a DynuDNS UpdateRecords that returned nil, the addresses of the
\* node's A-records are exactly those of the list, and the records of other
\* nodes and other types are the ones the zone held before
C12_DynuExactRecords ==
    callRet = Return("ok") =>
        /\ RecordAddresses(records) = Range(callArg.ips)
        /\ records \ getExistingRecords(records)
               = callArg.zone \ getExistingRecords(callArg.zone)

\* C13: a cycle whose route update fails is given up and the loop goes on:
\* Run is back in its select, where the next tick starts a fresh cycle
C13_FailedUpdateRetried ==
    [][(monPc = "routes" /\ monPc' # "schedule") => monPc' = "select"]_vars

\* C14: Run returns an error only out of a failed route update; a cycle's
\* probes, whichever gateways they find inactive (all of them included), are
\* followed by the route update of that cycle
C14_OnlyRouteErrorsAreFatal ==
    [][/\ (monPc' = "failed" /\ monPc # "failed") => monPc = "routes"
       /\ (monPc \in {"initial", "select"} /\ monPc' # monPc) =>
              monPc' \in {"routes", "stopped"}]_vars

\* every probe failed in a cycle that followed one with both gateways
\* active, and the loop went on to the next tick
C14_Witness ==
    /\ monPc = "select"
    /\ ~ cancelled
    /\ isActive = {}
    /\ nextActiveGateways = <<>>
    /\ Range(lastActiveIPs) = {3, 12}

\* C15: once the context is cancelled, Run is not cut short by a panic: it
\* is left by a return, also when the cancellation arrives in mid-cycle
C15_CancelledRunReturns ==
    cancelled => monPc # "panic"

\* C16: a deletion that fails during Close does not end the work: a failed
\* route deletion leaves the other listed routes to be deleted, a failed rule
\* deletion leaves the rest of the deletion plan to be carried out, and the
\* failure is kept for the joined error
C16_CloseBestEffort ==
    [][(phase = "close" /\ failures' > failures) =>
          /\ pc = "cl_del" =>
                 /\ \E r \in pending : pending' = pending \ {r}
                 /\ pc' = IF pending' = {} THEN "rm_list" ELSE "cl_del"
                 /\ "routes" \in res'.errs
          /\ pc = "rm_del" =>
                 /\ todo' = Tail(todo)
                 /\ pc' = "rm_del"]_vars

\* C17: an UpdateDefaultRoute called right after a successful one, with the
\* same active addresses in whatever order (none included), changes neither
\* the routes nor the rules, and has nothing left to delete
C17_UpdateIdempotent ==
    [][(UpdateSucceeded /\ res'.op = "update" /\ Range(arg') = Range(arg)) =>
          /\ routes' = routes
          /\ rules' = rules
          /\ pc' = "ready"]_vars

\* an update handed <<2, 10>> has filled a gateway table that was empty, so
\* that the same update, in this or the other order, can be applied again
C17_Witness ==
    /\ UpdateSucceeded
    /\ arg = <<2, 10>>
    /\ RouteListFiltered(routes0, m.gatewayTableID) = {}
    /\ RouteListFiltered(routes, m.gatewayTableID)
          = {Route(m.gatewayTableID, DefaultDst, <<10, 2>>)}

\* C18: after a successful init and a successful update with no active
\* gateway, the gateway table and the fallthrough table hold no route, and a
\* packet to any address is resolved by the system's main table
C18_GatewayLossFallsThrough ==
    (UpdateSucceeded /\ arg = <<>>) =>
        /\ RouteListFiltered(routes, m.gatewayTableID) = {}
        /\ RouteListFiltered(routes, m.fallthroughTableID) = {}
        /\ \A a \in Addrs : Resolve(rules, routes, a) = MainTable

\* some entry of the list is a prefix that contains the address
Covered(s, a) == \E i \in 1 .. Len(s) : s[i] # NilNet /\ Contains(s[i], a)

\* C19: whatever list of canonical prefixes ReduceNetworks is handed
\* (repeated and nested prefixes and nil entries included), an address lies
\* inside some prefix of the list exactly when it lies inside some prefix of
\* the returned list
C19_ReducePreservesCoverage ==
    callRet.done =>
        \A a \in Addrs : Covered(callArg, a) <=> Covered(callRet.value, a)

\* a list with a nil entry and the two halves of one parent, the upper half
\* first, came back as the parent alone
C19_Witness ==
    /\ callArg = <<Net(Pow2(AddrBits) - 1, AddrBits), NilNet,
                   Net(Pow2(AddrBits) - 2, AddrBits)>>
    /\ callRet = Return(<<Net(Pow2(AddrBits) - 2, AddrBits - 1)>>)

\* the number an address stands for
RECURSIVE IPValueFrom(_, _)
IPValueFrom(ip, j) ==
    IF j = 0 THEN 0 ELSE IPValueFrom(ip, j - 1) * (ByteMax + 1) + ip[j]

IPValue(ip) == IPValueFrom(ip, IPLen)

\* the dotted text of the address that stands for v, n bytes long
RECURSIVE HostText(_, _)
HostText(v, n) ==
    IF n = 1 THEN ToString(v % (ByteMax + 1))
    ELSE HostText(v \div (ByteMax + 1), n - 1) \o "." \o ToString(v % (ByteMax + 1))

\* the gateways appended so far, or returned
Generated == IF callRet.done THEN callRet.value.gateways ELSE callRet.gateways

\* C20: for start <= end the gateways GenerateGateways has appended are at
\* every moment the addresses start, start + 1, ... in this order, never more
\* than end - start + 1 of them (so the loop ends), each with the URL
\* <scheme>://<ip>:<port><path>, inactive and with no failure counted; and
\* it returns without error exactly end - start + 1 gateways
C20_GenerateGateways ==
    LET first == IPValue(callArg.startIP)
        last  == IPValue(callArg.endIP)
    IN  first <= last =>
           /\ Len(Generated) <= last - first + 1
           /\ \A i \in 1 .. Len(Generated) :
                  /\ IPValue(Generated[i].IP) = first + i - 1
                  /\ Generated[i].URL =
                        callArg.scheme \o "://" \o HostText(first + i - 1, IPLen)
                            \o ":" \o ToString(callArg.port) \o callArg.path
                  /\ Generated[i].IsActive = FALSE
                  /\ Generated[i].ConsecutiveFailures = 0
           /\ callRet.done =>
                  /\ ~ callRet.value.err
                  /\ Len(Generated) = last - first + 1

\* a range that crosses a byte boundary has been returned: three gateways,
\* the second one after a carry
C20_Witness ==
    /\ callRet.done
    /\ IPValue(callArg.startIP) = ByteMax
    /\ IPValue(callArg.endIP) = ByteMax + 2
    /\ Len(callRet.value.gateways) = 3
    /\ callRet.value.gateways[2].IP = [j \in 1 .. IPLen |-> IF j = IPLen - 1 THEN 1 ELSE 0]

\* the slice is an IPv4 address, in the short or in the long form
IsIPv4Slice(ip) ==
    \/ Len(ip) = IPLen
    \/ /\ Len(ip) = IPLen + 2
       /\ ip[1] = 0
       /\ ip[2] = ByteMax

\* the number the last IPLen bytes of the slice stand for
RECURSIVE SliceValue(_, _)
SliceValue(ip, n) ==
    IF n = 0 THEN 0
    ELSE SliceValue(ip, n - 1) * (ByteMax + 1) + ip[Len(ip) - IPLen + n]

\* the largest address (255.255.255.255)
RECURSIVE MaxAddress(_)
MaxAddress(n) == IF n = 0 THEN 0 ELSE MaxAddress(n - 1) * (ByteMax + 1) + ByteMax

\* C21: IncrementIP fails on the largest address and on a slice that is no
\* IPv4 address and leaves the slice as it was; on every other IPv4 address
\* it succeeds and the slice, of the same length and with the same leading
\* bytes, then holds the address plus one
C21_IncrementIP ==
    callRet.done =>
        LET before == callArg
            after  == callRet.value.ip
        IN  /\ Len(after) = Len(before)
            /\ IF ~ IsIPv4Slice(before) \/ SliceValue(before, IPLen) = MaxAddress(IPLen)
               THEN callRet.value.err /\ after = before
               ELSE /\ ~ callRet.value.err
                    /\ SliceValue(after, IPLen) = SliceValue(before, IPLen) + 1
                    /\ \A i \in 1 .. (Len(before) - IPLen) : after[i] = before[i]

\* an address in the long form whose last byte was full has been incremented
\* with a carry
C21_Witness ==
    /\ callArg = v4InV6Prefix \o [j \in 1 .. IPLen |-> IF j = IPLen THEN ByteMax ELSE 0]
    /\ callRet = Return([err |-> FALSE,
                         ip |-> v4InV6Prefix \o
                                [j \in 1 .. IPLen |-> IF j = IPLen - 1 THEN 1 ELSE 0]])

\* C22: FetchPublicIP on a gateway that is not active returns an error
\* without a request, and whenever it returns an error the gateway's
\* PublicIP is the one it had before the call
C22_PublicIPOnlyOnSuccess ==
    callRet.done =>
        /\ ~ callArg.g.IsActive =>
               /\ callRet.value.err # ""
               /\ callRet.value.requests = 0
        /\ callRet.value.err # "" => callRet.value.PublicIP = callArg.g.PublicIP

\* a 200 response carrying an address that is not IPv4 was refused and the
\* address fetched earlier is still there
C22_Witness ==
    /\ callRet.done
    /\ callArg.g = [IsActive |-> TRUE, PublicIP |-> "198.51.100.2"]
    /\ callArg.resp.body.text = "2001:db8::1"
    /\ callRet.value = FetchResult("non_ipv4", "198.51.100.2", 1)

\* C23: a response is refused for its status exactly when the status lies
\* outside 200..299
C23_StatusCheckIsNon2xx ==
    (callRet.done /\ callArg.g.IsActive /\ callArg.resp.transport = "ok") =>
        (callRet.value.err = "status" <=> callArg.resp.status \notin 200 .. 299)

\* the manager fields of the configuration, whether or not init has set them
ConfiguredManager ==
    ManagerFields(ReduceNetworks(cfg.excludes), cfg.firstTableID, cfg.firstRulePreference)

\* the gateway rule of the configuration is in the list while its
\* fallthrough rule or one of its exclude rules is not
GatewayRuleExposed(rs) ==
    /\ gatewayRule(ConfiguredManager) \in Range(rs)
    /\ \/ fallthroughRule(ConfiguredManager) \notin Range(rs)
       \/ \E i \in 1 .. Len(ConfiguredManager.excludeNets) :
             excludeRule(ConfiguredManager, i) \notin Range(rs)

\* a step of NewNetlinkManager, its cleanup after a failed add included
InitStep ==
    /\ phase \in {"init", "cleanup"}
    /\ pc \in {"new", "rm_list", "rm_del", "add"}

\* C24: no step of init, of one that fails and tears down included, changes
\* the rule list into one that has the gateway rule but lacks the
\* fallthrough rule or an exclude rule: rules found at the band priorities
\* go first (the gateway rule before the others), the gateway rule is added
\* last
C24_GatewayRuleAddedLast ==
    [][(InitStep /\ rules' # rules) => ~ GatewayRuleExposed(rules')]_vars

\* init on a kernel that held rules of an earlier run has added the
\* fallthrough rule and two exclude rules and is about to add the gateway rule
C24_Witness ==
    /\ pc = "add"
    /\ phase = "init"
    /\ rules0 # SystemRules
    /\ Len(m.excludeNets) = 2
    /\ todo = <<gatewayRule(m)>>
    /\ fallthroughRule(m) \in Range(rules)

\* the step deletes a rule
RuleDeleted == \E x \in Range(rules) : x \notin Range(rules')

C26_FailedInitCleansUp ==
    (pc = "failed" /\ "add" \in res.errs /\ failures = 1) =>
        /\ res = Result("init", {"add"})
        /\ ~ handleOpen
        /\ \A i \in 1 .. Len(rules) : rules[i].priority \notin BandPriorities

\* every probe goroutine of the cycle has finished
ProbesFinished == \A g \in GatewayIPs : callRet.task[g] = "done"

\* C27: in a cycle the active list is collected, the route update called and
\* ScheduleUpdate called only after every probe goroutine has finished, when
\* each gateway's IsActive is the probe's result and its ConsecutiveFailures
\* is 0 or one more than before; the collected list is the gateways then
\* active; and ScheduleUpdate is called only after the route update returned
C27_CycleOrder ==
    /\ callRet.pc \in {"collect", "routes", "schedule", "count", "return"} =>
           /\ ProbesFinished
           /\ \A g \in GatewayIPs :
                  callRet.ConsecutiveFailures[g] =
                      IF callRet.IsActive[g] THEN 0
                      ELSE callArg.ConsecutiveFailures[g] + 1
    /\ callRet.pc \in {"routes", "schedule", "count", "return"} =>
           Range(callRet.activeGateways) = { g \in GatewayIPs : callRet.IsActive[g] }
    /\ callRet.calls \in {<<>>, <<"updateRoutes">>, <<"updateRoutes", "ScheduleUpdate">>}
    /\ callRet.calls # <<>> => callRet.pc \in {"schedule", "count", "return"}
    /\ "ScheduleUpdate" \in Range(callRet.calls) => ~ callRet.err

\* a cycle in which one probe succeeded and the other failed a second time
\* has updated the routes and scheduled the one active gateway
C27_Witness ==
    /\ callRet.done
    /\ callArg.ConsecutiveFailures[10] = 1
    /\ callRet.IsActive = [g \in GatewayIPs |-> g = 2]
    /\ callRet.ConsecutiveFailures[10] = 2
    /\ callRet.calls = <<"updateRoutes", "ScheduleUpdate">>
    /\ callRet.nextActive = <<2>>

\* C28: a cycle whose route update fails returns the error with
\* errors_total{route_error} bumped once, without a ScheduleUpdate call (the
\* scheduled snapshot is the one found, no signal is sent) and without
\* check_cycles_total bumped
C28_RouteErrorCycle ==
    (callRet.done /\ callRet.updateFailed) =>
        /\ callRet.err
        /\ callRet.routeErrors = 1
        /\ callRet.calls = <<"updateRoutes">>
        /\ callRet.nextActive = callArg.nextActive
        /\ callRet.signals = 0
        /\ callRet.checkCycles = 0

\* the route update failed in a cycle whose active gateways differ from the
\* scheduled snapshot
C28_Witness ==
    /\ callRet.done
    /\ callRet.updateFailed
    /\ callRet.activeGateways = <<2, 10>>
    /\ callArg.nextActive = <<>>

\* C29: ScheduleUpdate never performs its send on updateChan after
\* Updater.Close has closed the channel, whatever the interleaving of the
\* check cycle, the updater and the cancellation
C29_NoSendOnClosedChannel ==
    [][(monPc = "send" /\ monPc' # "send") => ~ updateChanClosed]_vars

\* NewNetlinkManager has returned a manager and nothing was called since
InitSucceeded == pc = "ready" /\ res = Result("init", {})

\* C30: after a successful init the rule at the gateway priority is the only
\* rule that looks up the gateway table, and every rule in effect is a system
\* rule or one this init added: nothing an earlier run with the same first
\* table and first preference left behind remains, whatever the number of
\* exclude rules that run had installed
C30_RestartSafe ==
    InitSucceeded =>
        /\ \A i \in 1 .. Len(rules) :
               rules[i].table = m.gatewayTableID =>
                   rules[i].priority = m.gatewayTableRulePreference
        /\ \A i \in 1 .. Len(rules) :
               rules[i] \in Range(SystemRules) \cup Range(AddList(m))

\* the pass has gone through its comparison
PassCompared ==
    callRet.done /\ (callRet.providerCalls # <<>> \/ "no_change" \in Range(callRet.skipped))

\* C31: lastActiveIPs differs from what the pass found only when the pass has
\* returned nil after a successful provider call with the list now stored; a
\* pass that returns an error, that ends with its context done, or that ends
\* in the required-address skip leaves lastActiveIPs as it found it
C31_PublishedOnlyOnSuccess ==
    /\ callRet.lastActiveIPs # callArg.lastActiveIPs =>
           /\ callRet.done
           /\ ~ callRet.err
           /\ callRet.providerCalls = <<[ips |-> callRet.lastActiveIPs, ok |-> TRUE]>>
    /\ (callRet.done /\ (\/ callRet.err
                          \/ callRet.ctxDone
                          \/ "required_ip_not_found" \in Range(callRet.skipped)
                          \/ \E i \in 1 .. Len(callRet.providerCalls) :
                                ~ callRet.providerCalls[i].ok)) =>
           callRet.lastActiveIPs = callArg.lastActiveIPs

\* a pass whose context was done after the first of two fetches: the provider
\* call with the one address fetched failed and the published list stayed
C31_Witness ==
    /\ callRet.done
    /\ callRet.ctxDone
    /\ callRet.err
    /\ callRet.fetches = <<2, 10>>
    /\ callRet.fetched = <<2>>
    /\ Len(callRet.providerCalls) = 1
    /\ callRet.providerCalls[1].ips # callArg.lastActiveIPs
    /\ callArg.lastActiveIPs # <<>>
    /\ callRet.lastActiveIPs = callArg.lastActiveIPs

\* C32: the step of a pass through its comparison calls the provider, once
\* and with the computed list, exactly when that list differs from
\* lastActiveIPs; when the two are equal it counts one no_change skip and
\* calls no provider
C32_NoChangeShortCircuit ==
    [][(callRet.pc = "compare" /\ callRet'.pc # "compare") =>
          LET ips == uniqueSorted(callRet.publicIPs)
          IN  IF ips # callRet.lastActiveIPs
              THEN /\ Len(callRet'.providerCalls) = Len(callRet.providerCalls) + 1
                   /\ callRet'.providerCalls[Len(callRet'.providerCalls)].ips = ips
                   /\ callRet'.skipped = callRet.skipped
              ELSE /\ callRet'.providerCalls = callRet.providerCalls
                   /\ callRet'.skipped = Append(callRet.skipped, "no_change")]_vars

\* a pass fetched the address already published and called no provider
C32_Witness ==
    /\ callRet.done
    /\ callRet.fetched = <<2>>
    /\ callArg.lastActiveIPs = <<callArg.publicIPOf[2]>>
    /\ callRet.skipped = <<"no_change">>
    /\ callRet.providerCalls = <<>>

\* l is the public addresses of the gateways whose fetch succeeded, each
\* once, in ascending order of their text
IsFetchedList(l) ==
    /\ Range(l) = { callArg.publicIPOf[g] : g \in Range(callRet.fetched) }
    /\ StrictlyAscendingByString(l)

\* C33: in a pass that went through its comparison every gateway of the
\* loaded snapshot was fetched, also after a failed fetch, and the list
\* compared, handed to the provider and stored is the public addresses of the
\* gateways whose fetch succeeded, sorted and without duplicates
C33_PublishedListIsFetchedSet ==
    PassCompared =>
        /\ callRet.fetches = callArg.nextActiveGateways
        /\ \A i \in 1 .. Len(callRet.providerCalls) : IsFetchedList(callRet.providerCalls[i].ips)
        /\ "no_change" \in Range(callRet.skipped) => IsFetchedList(callArg.lastActiveIPs)
        /\ ~ callRet.err => IsFetchedList(callRet.lastActiveIPs)

\* the first fetch failed, the second was still made, and the provider got
\* the second gateway's address
C33_Witness ==
    /\ callRet.done
    /\ callRet.fetches = <<2, 10>>
    /\ callRet.fetched = <<10>>
    /\ callRet.providerCalls = <<[ips |-> <<callArg.publicIPOf[10]>>, ok |-> TRUE]>>

\* two gateways reported the same address and the provider got it once
C33_WitnessShared ==
    /\ callRet.done
    /\ callRet.fetched = <<2, 10>>
    /\ callArg.publicIPOf[2] = callArg.publicIPOf[10]
    /\ callRet.providerCalls = <<[ips |-> <<callArg.publicIPOf[2]>>, ok |-> TRUE]>>

\* C34: with a required address configured and on no interface, the pass
\* fetches no public address, calls no provider and leaves lastActiveIPs and
\* next_active as they were; unless the interface query itself failed it
\* counts one required_ip_not_found skip and returns nil
C34_RequiredIPGate ==
    (callArg.requireIP /\ ~ callArg.hasRequiredIP) =>
        /\ callRet.fetches = <<>>
        /\ callRet.providerCalls = <<>>
        /\ callRet.lastActiveIPs = callArg.lastActiveIPs
        /\ callRet.nextActiveGateways = callArg.nextActiveGateways
        /\ (callRet.done /\ ~ callRet.err) =>
               callRet.skipped = <<"required_ip_not_found">>

\* the gate has ended a pass whose snapshot had gateways to fetch and whose
\* published list was not what they would have reported
C34_Witness ==
    /\ callArg.requireIP
    /\ ~ callArg.hasRequiredIP
    /\ callRet.done
    /\ ~ callRet.err
    /\ callArg.nextActiveGateways = <<2, 10>>
    /\ callArg.lastActiveIPs = <<>>
    /\ callRet.skipped = <<"required_ip_not_found">>

\* the active list of the cycle that built slice id, as Gateway values
SnapshotOf(id) ==
    [i \in 1 .. Len(callRet.madeFrom[id]) |->
        GatewayValue(callRet.madeFrom[id][i], TRUE, 0, 0)]

\* C35: every slice a cycle has handed to ScheduleUpdate still holds exactly
\* the gateways whose probe succeeded in that cycle, with IsActive set,
\* whatever later cycles have probed and written; the elements the updater's
\* pass has ranged over are those of the slice it loaded; and no PublicIP of
\* gm.gateways has been written
C35_SnapshotIsolation ==
    /\ \A id \in 1 .. Len(callRet.slices) : callRet.slices[id] = SnapshotOf(id)
    /\ \A id \in 2 .. Len(callRet.slices) :
           Range(callRet.madeFrom[id]) =
               { g \in GatewayIPs : callRet.probes[g][id - 1] \in 200 .. 299 }
    /\ callRet.ranged = SubSeq(SnapshotOf(callRet.loaded), 1, Len(callRet.ranged))
    /\ \A g \in GatewayIPs : callRet.gateways[g].PublicIP = 0

\* the pass is ranging over the two gateways the first cycle scheduled and
\* has fetched the first one's public address, while the second cycle has
\* already found that gateway down
C35_Witness ==
    /\ callRet.updPc = "range"
    /\ callRet.loaded = 2
    /\ callRet.madeFrom[2] = <<2, 10>>
    /\ callRet.ranged = <<GatewayValue(2, TRUE, 0, 0)>>
    /\ callRet.gw = GatewayValue(2, TRUE, 0, callArg[2])
    /\ callRet.cycle = 2
    /\ ~ callRet.gateways[2].IsActive

\* the number of probes in the log p since the last one answered with a 2xx
\* status
FailedSinceSuccess(p) ==
    LET good == { i \in 1 .. Len(p) : p[i] \in 200 .. 299 }
    IN  Len(p) - (IF good = {} THEN 0 ELSE CHOOSE i \in good : \A j \in good : j <= i)

\* in r every gateway's fields are what its own probes make them
ProbedFields(r) ==
    \A g \in GatewayIPs :
       /\ r.gateways[g].IsActive =
             (r.probes[g] # <<>> /\ r.probes[g][Len(r.probes[g])] \in 200 .. 299)
       /\ r.gateways[g].ConsecutiveFailures = FailedSinceSuccess(r.probes[g])

\* C37: after every step of every cycle a gateway's IsActive says whether its
\* latest probe got a response with a status from 200 to 299, its
\* ConsecutiveFailures is the number of its probes since the last such
\* response (0 after a success, one more after a failure), and a probe
\* changes the record of its own gateway only
C37_ProbeBookkeeping ==
    [][/\ ProbedFields(callRet')
       /\ \A g \in GatewayIPs :
              callRet'.probes[g] = callRet.probes[g] =>
                  callRet'.gateways[g] = callRet.gateways[g]]_vars

\* after two cycles one gateway answered 299 and then nothing, the other
\* answered 300 and then 199
C37_Witness ==
    /\ callRet.monPc = "select"
    /\ callRet.probes[2] = <<299, 0>>
    /\ callRet.probes[10] = <<300, 199>>
    /\ callRet.gateways[2].ConsecutiveFailures = 1
    /\ callRet.gateways[10].ConsecutiveFailures = 2
    /\ ~ callRet.gateways[2].IsActive

\* C36: the signals updateChan has taken and not yet handed to Run are at
\* most one, they are the ones in its buffer, and a cycle that has reached
\* ScheduleUpdate can always complete it
C36_AtMostOnePending ==
    /\ callRet.signalsSent - callRet.signalsReceived <= 1
    /\ callRet.signalsSent - callRet.signalsReceived = callRet.updateChan
    /\ callRet.monPc = "schedule" => ENABLED cyclesSchedule

\* two cycles have signalled: the first signal went to the waiting Run, the
\* second came while the pass was ranging and was dropped
C36_Witness ==
    /\ callRet.cycle = 2
    /\ callRet.monPc = "select"
    /\ callRet.updPc = "range"
    /\ callRet.signalsSent = 1
    /\ callRet.signalsReceived = 1
    /\ callRet.signalsDropped = 1

\* s is in normal form: no nil entry, no prefix twice, none inside another,
\* and no two prefixes of one length that are the halves of a common parent
NormalForm(s) ==
    /\ \A i \in 1 .. Len(s) : s[i] # NilNet
    /\ \A i, j \in 1 .. Len(s) :
           i # j =>
              /\ s[i] # s[j]
              /\ ~ (s[i].ones <= s[j].ones /\ Contains(s[i], s[j].ip))
              /\ ~ (/\ s[i].ones = s[j].ones
                    /\ s[i].ones > 0
                    /\ s[i].ip \div Pow2(AddrBits - s[i].ones + 1)
                          = s[j].ip \div Pow2(AddrBits - s[j].ones + 1))

\* C38: whatever list of canonical prefixes and nil entries ReduceNetworks is
\* handed, the list it returns is in normal form, and reducing that list
\* again returns it unchanged
C38_ReduceNormalForm ==
    callRet.done =>
        /\ NormalForm(callRet.value)
        /\ ReduceNetworks(callRet.value) = callRet.value

\* r is an A-record of the configured node
IsHostARecord(r) == r.nodeName = HostNode /\ r.recordType = "A"

\* C39: a DynuDNS UpdateRecords handed a sorted list without repeats, whether
\* it returns nil or an error, has deleted only A-records of the node whose
\* address is not in the list, has created only A-records of the node for
\* addresses of the list that had no such record, at most one per address,
\* and has left in place every A-record of the node whose address is in the
\* list
C39_DynuDifferentialUpdate ==
    (callRet.done /\ callArg.ips = uniqueSorted(callArg.ips)) =>
        /\ \A r \in callArg.zone \ records :
               IsHostARecord(r) /\ r.ipv4Address \notin Range(callArg.ips)
        /\ \A r \in records \ callArg.zone :
               /\ IsHostARecord(r)
               /\ r.ipv4Address \in Range(callArg.ips)
               /\ ~ \E e \in callArg.zone :
                       IsHostARecord(e) /\ e.ipv4Address = r.ipv4Address
               /\ \A q \in records \ callArg.zone :
                       q.ipv4Address = r.ipv4Address => q = r
        /\ \A r \in callArg.zone :
               (IsHostARecord(r) /\ r.ipv4Address \in Range(callArg.ips)) => r \in records

\* of the node's records for 3 and 5, with 12 and 3 wanted, the one for 3
\* was kept, the one for 5 deleted and one for 12 created
C39_Witness ==
    /\ callRet = Return("ok")
    /\ callArg.zone = {ARecord(1, 3), ARecord(2, 5)}
    /\ callArg.ips = <<12, 3>>
    /\ ARecord(1, 3) \in records
    /\ ARecord(2, 5) \notin records
    /\ \E r \in records \ callArg.zone : r.ipv4Address = 12

=========================================================================
